---- MODULE Spec2Model ----
(***************************************************************************)
(* A model of the tool adapters of api/app/clients/tools:                  *)
(*   WordPressTool        structured/WordPressTool.js                      *)
(*   WordPressToolEarlier the earlier revision kept in tools/index.js      *)
(*   PortdoxTool          structured/PortdoxTool.js                        *)
(*   FluxAPI              tools/index.js                                   *)
(* One invocation of _call is a run of steps, each step being the code     *)
(* executed between two awaits: the call itself up to the first request,   *)
(* then one step per HTTP response.  The remote is the environment: every  *)
(* response is chosen nondeterministically.                                *)
(***************************************************************************)
EXTENDS Integers, Sequences, FiniteSets, TLC

(***************************************************************************)
(* Bounds of the model.                                                    *)
(***************************************************************************)
\* numeric ids supplied by the caller (postId, tagId, categoryId) are 0..MaxId
MaxId == 1
\* page and perPage supplied by the caller are 0..MaxPage
MaxPage == 2
\* a list answered by the remote holds at most MaxItems elements
MaxItems == 1
\* images one FluxAPI request asks for
MaxImages == 2
\* polls of one task the log of requests keeps; later polls are sent unlogged
MaxPolls == 2

(***************************************************************************)
(* JavaScript values.  Every value is a record of the same shape, so that  *)
(* values of different JavaScript types can be compared.                   *)
(***************************************************************************)
Undefined == [ty |-> "undefined", s |-> "", n |-> 0, a |-> <<>>]
Null == [ty |-> "null", s |-> "", n |-> 0, a |-> <<>>]
Str(x) == [ty |-> "string", s |-> x, n |-> 0, a |-> <<>>]
Num(x) == [ty |-> "number", s |-> "", n |-> x, a |-> <<>>]
Arr(x) == [ty |-> "array", s |-> "", n |-> 0, a |-> x]
Bool(x) == [ty |-> "boolean", s |-> "", n |-> IF x THEN 1 ELSE 0, a |-> <<>>]
\* a nested object; its members are held beside it under dotted keys
Object == [ty |-> "object", s |-> "", n |-> 0, a |-> <<>>]

\* ToBoolean: what `if (v)`, `!v` and `v || d` test
Truthy(v) ==
  CASE v.ty = "undefined" -> FALSE
    [] v.ty = "null" -> FALSE
    [] v.ty = "string" -> v.s # ""
    [] v.ty = "number" -> v.n # 0
    [] v.ty = "boolean" -> v.n # 0
    [] OTHER -> TRUE

\* v || d
Or(v, d) == IF Truthy(v) THEN v ELSE d

\* a default parameter value: taken when the argument is undefined
DefaultParam(v, d) == IF v.ty = "undefined" THEN d ELSE v

RECURSIVE JoinNums(_)
JoinNums(q) ==
  IF q = <<>> THEN ""
  ELSE IF Len(q) = 1 THEN ToString(q[1])
  ELSE ToString(q[1]) \o "," \o JoinNums(Tail(q))

\* string conversion of a value inside a template literal `${v}`
Interp(v) ==
  CASE v.ty = "undefined" -> "undefined"
    [] v.ty = "null" -> "null"
    [] v.ty = "string" -> v.s
    [] v.ty = "number" -> ToString(v.n)
    [] v.ty = "array" -> JoinNums(v.a)
    [] v.ty = "boolean" -> IF v.n # 0 THEN "true" ELSE "false"
    [] OTHER -> "[object Object]"

\* s contains sub
Contains(s, sub) ==
  \E i \in 1..(Len(s) - Len(sub) + 1) : SubSeq(s, i, i + Len(sub) - 1) = sub

(***************************************************************************)
(* Action requests: the argument of _call, a mapping from keys to values.  *)
(***************************************************************************)
\* a schema is the sequence of its fields' rules, in declaration order
Rule(key, kind, vals, def) == [key |-> key, kind |-> kind, vals |-> vals, def |-> def]
Optional(key, kind) == Rule(key, kind, {}, Undefined)

\* the 20 action names of the schema of structured/WordPressTool.js
WpActions ==
  {"createPost", "editPost", "listCategories", "listTags", "searchPosts",
   "searchByMeta", "updatePostMeta", "updateCategory", "updateTag",
   "getPostMeta", "deletePostMeta", "listPaginatedPosts",
   "listPaginatedCategories", "listPaginatedTags", "getPostContentById",
   "getFeaturedImage", "addCategory", "deleteCategory", "addTag", "deleteTag"}

DefaultPage == 1
DefaultPerPage == 20

WpSchema ==
  << Rule("action", "enum", WpActions, Undefined),
     Optional("postId", "number"),
     Optional("title", "string1"),
     Optional("content", "string1"),
     Rule("status", "optenum", {"draft", "publish", "future"}, Undefined),
     Rule("type", "optenum", {"post", "page"}, Undefined),
     Optional("tags", "array"),
     Optional("categories", "array"),
     Optional("date", "string"),
     Rule("searchType", "optenum", {"contains", "starts_with", "ends_with"}, Undefined),
     Optional("searchValue", "string"),
     Optional("tagId", "number"),
     Optional("categoryId", "number"),
     Optional("metaKey", "string"),
     Optional("metaValue", "string"),
     Optional("name", "string"),
     Optional("description", "string"),
     Rule("page", "number", {}, Num(DefaultPage)),
     Rule("perPage", "number", {}, Num(DefaultPerPage)) >>

WpEarlierActions ==
  {"createPost", "editPost", "listCategories", "listTags", "searchPosts"}

WpEarlierSchema ==
  << Rule("action", "enum", WpEarlierActions, Undefined),
     Optional("postId", "number"),
     Optional("title", "string1"),
     Optional("content", "string1"),
     Rule("status", "optenum", {"draft", "publish", "future"}, Undefined),
     Rule("type", "optenum", {"post", "page"}, Undefined),
     Optional("tags", "array"),
     Optional("categories", "array"),
     Optional("date", "string"),
     Rule("searchType", "optenum", {"contains", "starts_with", "ends_with"}, Undefined),
     Optional("searchValue", "string"),
     Optional("tagId", "number"),
     Optional("tagName", "string"),
     Optional("categoryId", "number"),
     Optional("categoryName", "string") >>

PdActions == {"list_load_requests", "search_by_ref", "update_container"}

PdSchema ==
  << Rule("action", "enum", PdActions, Undefined),
     Optional("page", "number"),
     Optional("per_page", "number"),
     Optional("ref_number", "string"),
     Optional("container_number", "string"),
     Optional("container_type", "string"),
     Optional("seal_no_1", "string"),
     Optional("seal_no_2", "string"),
     Optional("empty_pickup_date", "string"),
     Optional("full_return_date", "string"),
     Optional("booking_id", "string"),
     Optional("container_status", "string"),
     Optional("load_id", "string") >>

Declared(schema) == {schema[i].key : i \in 1..Len(schema)}

\* the fields FluxAPI._call takes from its argument
FluxFields ==
  {"prompt", "width", "height", "steps", "prompt_upsampling", "seed", "safety_tolerance",
   "output_format", "endpoint", "number_of_images", "raw"}

\* every key a request of the model may carry; "extra" is declared by no schema
Keys ==
  Declared(WpSchema) \cup Declared(WpEarlierSchema) \cup Declared(PdSchema)
    \cup FluxFields \cup {"extra"}

NoArgs == [k \in Keys |-> Undefined]

\* the request {action: act, ...over}
Req(act, over) ==
  [k \in Keys |->
     IF k = "action" THEN Str(act)
     ELSE IF k \in DOMAIN over THEN over[k] ELSE Undefined]

(***************************************************************************)
(* zod: z.object({...}).safeParse(args).  An object schema accepts a key   *)
(* it does not declare and leaves it out of the parsed data.               *)
(***************************************************************************)
\* does value v satisfy the rule of its field
Accepts(rule, v) ==
  IF rule.kind = "enum" THEN v.ty = "string" /\ v.s \in rule.vals
  ELSE IF v.ty = "undefined" THEN TRUE
  ELSE CASE rule.kind = "optenum" -> v.ty = "string" /\ v.s \in rule.vals
         [] rule.kind = "string" -> v.ty = "string"
         [] rule.kind = "string1" -> v.ty = "string" /\ Len(v.s) >= 1
         [] rule.kind = "number" -> v.ty = "number"
         [] rule.kind = "array" -> v.ty = "array"
         [] OTHER -> FALSE

RuleOf(schema, k) == schema[CHOOSE i \in 1..Len(schema) : schema[i].key = k]

\* the keys of the fields that fail, in declaration order
Issues(schema, args) ==
  LET Fails(r) == ~ Accepts(r, args[r.key])
  IN  SelectSeq([i \in 1..Len(schema) |-> schema[i]], Fails)

RECURSIVE IssuePaths(_)
IssuePaths(q) ==
  IF q = <<>> THEN ""
  ELSE IF Len(q) = 1 THEN q[1].key
  ELSE q[1].key \o "," \o IssuePaths(Tail(q))

\* JSON.stringify(error.issues), reduced to the paths of the issues
IssuesJson(schema, args) == "[" \o IssuePaths(Issues(schema, args)) \o "]"

safeParse(schema, args) ==
  [ success |-> Issues(schema, args) = <<>>,
    data |->
      [k \in Keys |->
         IF k \notin Declared(schema) THEN Undefined
         ELSE DefaultParam(args[k], RuleOf(schema, k).def)] ]

(***************************************************************************)
(* HTTP.  A request is what fetch or axios is given; a response is what    *)
(* the remote answers, or the failure of the transport.                    *)
(***************************************************************************)
BaseUrl == "https://wp.example"
Username == "user"
Password == "secret"

\* the members a response body or a list element may have
BodyKeys ==
  {"message", "token", "id", "title", "title.rendered", "content",
   "content.rendered", "featured_media", "guid", "guid.rendered", "meta",
   "name", "description", "success", "error", "data", "data.data",
   "load_id", "ref_number", "total_cars", "status", "result", "result.sample",
   "filepath"}

Members(over) == [k \in BodyKeys |-> IF k \in DOMAIN over THEN over[k] ELSE Undefined]

\* a JSON object, a JSON array, or text that is not JSON
JsonObject(over) == [shape |-> "object", f |-> Members(over), items |-> <<>>]
JsonArray(items) == [shape |-> "array", f |-> Members(<<>>), items |-> items]
NotJson == [shape |-> "unparseable", f |-> Members(<<>>), items |-> <<>>]

NoBody == [k \in {} |-> Undefined]
Param(name, value) == [name |-> name, value |-> value]

\* auth: the Authorization header, "" when the request has none
HttpRequest(method, url, auth, body) ==
  [method |-> method, url |-> url, auth |-> auth, body |-> body]

Bearer(token) == "Bearer " \o Interp(token)

HttpResponse(status, body) == [net |-> "answered", status |-> status, body |-> body]
NetworkFailure == [net |-> "failed", status |-> 0, body |-> NotJson]

\* Response.ok of fetch
Ok(resp) == resp.status \in 200..299

(***************************************************************************)
(* What a function ends with: a returned value or a thrown Error.          *)
(***************************************************************************)
Return(v) == [threw |-> FALSE, message |-> "", value |-> v]
Throw(m) == [threw |-> TRUE, message |-> m, value |-> Undefined]

FetchFailed == "fetch failed"
JsonSyntaxError == "Unexpected token < in JSON at position 0"
ReadOfUndefined(member) ==
  "Cannot read properties of undefined (reading '" \o member \o "')"
NotAFunction(what) == what \o " is not a function"

\* await response.json()
json(resp) ==
  IF resp.net = "failed" THEN Throw(FetchFailed)
  ELSE IF resp.body.shape = "unparseable" THEN Throw(JsonSyntaxError)
  ELSE Return(resp.body)

\* data.message || 'Unknown error', inside a template literal
MessageOf(data) == Interp(Or(data.f["message"], Str("Unknown error")))

\* the pattern of most handlers: parse the body, then test response.ok
\*   const data = await response.json();
\*   if (!response.ok) throw new Error(`${prefix}${data.message || 'Unknown error'}`);
\*   return data;
JsonThenOk(resp, prefix) ==
  IF resp.net = "failed" THEN Throw(FetchFailed)
  ELSE IF json(resp).threw THEN json(resp)
  ELSE IF ~ Ok(resp) THEN Throw(prefix \o MessageOf(json(resp).value))
  ELSE json(resp)

\* the pattern of the paginated, content and image handlers: test
\* response.ok, then parse the body
\*   if (!response.ok) throw new Error(fixed);
\*   const data = await response.json();
OkThenJson(resp, fixed) ==
  IF resp.net = "failed" THEN Throw(FetchFailed)
  ELSE IF ~ Ok(resp) THEN Throw(fixed)
  ELSE json(resp)

(***************************************************************************)
(* What _call ends with.  JSON.stringify leaves out the members of an      *)
(* object whose value is undefined.                                        *)
(***************************************************************************)
NoResult == [how |-> "none", form |-> "none", text |-> "", val |-> <<>>]
\* a string that is not JSON
Text(t) == [how |-> "return", form |-> "text", text |-> t, val |-> <<>>]
\* an Error leaving _call
Thrown(m) == [how |-> "throw", form |-> "text", text |-> m, val |-> <<>>]

Defined(obj) == [k \in {x \in DOMAIN obj : obj[x].ty # "undefined"} |-> obj[k]]

\* JSON.stringify(obj), obj an object whose members are plain values
Stringify(obj) == [how |-> "return", form |-> "object", text |-> "", val |-> Defined(obj)]
\* JSON.stringify(obj) with one more member holding a nested object
StringifyWith(obj, key, nested) ==
  [how |-> "return", form |-> "object", text |-> "",
   val |-> Defined(obj) @@ (key :> nested)]
\* JSON.stringify(list), list an array of objects
StringifyList(list) ==
  [how |-> "return", form |-> "array", text |-> "",
   val |-> [i \in 1..Len(list) |-> Defined(list[i])]]
\* JSON.stringify(data), data a parsed response body
StringifyData(data) == [how |-> "return", form |-> "data", text |-> "", val |-> data]

ErrorEnvelope(m) == Stringify([error |-> Str(m)])

IsErrorEnvelope(r) ==
  r.how = "return" /\ r.form = "object" /\ DOMAIN r.val = {"error"}

(***************************************************************************)
(* URL encoding, over the characters the model's strings are made of:      *)
(* letters, digits, the space and the asterisk.                            *)
(***************************************************************************)
RECURSIVE ReplaceSpace(_, _)
ReplaceSpace(str, by) ==
  IF Len(str) = 0 THEN ""
  ELSE (IF SubSeq(str, 1, 1) = " " THEN by ELSE SubSeq(str, 1, 1))
         \o ReplaceSpace(SubSeq(str, 2, Len(str)), by)

encodeURIComponent(v) == ReplaceSpace(Interp(v), "%20")

\* URLSearchParams.toString() of the appended pairs
RECURSIVE URLSearchParams(_)
URLSearchParams(params) ==
  IF params = <<>> THEN ""
  ELSE params[1].name \o "=" \o ReplaceSpace(Interp(params[1].value), "+")
         \o (IF Len(params) > 1 THEN "&" ELSE "")
         \o URLSearchParams(Tail(params))

(***************************************************************************)
(* One step of an invocation: the code run between two awaits either sends *)
(* a request and waits at `next`, or ends the invocation with a result.    *)
(***************************************************************************)
NoLocal == [tagId |-> Undefined, categoryId |-> Undefined]
Await(label, request, loc) ==
  [next |-> label, send |-> <<request>>, result |-> NoResult, local |-> loc]
Finish(r) == [next |-> "done", send |-> <<>>, result |-> r, local |-> NoLocal]

\* the code between two awaits ends by throwing
Raise(m) == [next |-> "throw", send |-> <<>>, result |-> Thrown(m), local |-> NoLocal]
\* an outcome that threw, as a step
Rethrow(r) == Raise(r.message)

(***************************************************************************)
(* WordPressTool: the methods.  For a method X, XFetch is the request it   *)
(* sends and X the outcome of the method once the response is there.       *)
(***************************************************************************)
WpJson == BaseUrl \o "/wp-json"

getTokenFetch ==
  HttpRequest("POST", WpJson \o "/jwt-auth/v1/token", "",
              [username |-> Str(Username), password |-> Str(Password)])

\* getToken without `if (!response.ok) throw`
getTokenUnchecked(resp) ==
  LET r == json(resp)
  IN  IF r.threw THEN r ELSE Return(r.value.f["token"])

getToken(resp) ==
  LET r == JsonThenOk(resp, "Authentication failed: ")
  IN  IF r.threw THEN r ELSE Return(r.value.f["token"])

listPostsFetch(token) ==
  HttpRequest("GET", WpJson \o "/wp/v2/posts", Bearer(token), NoBody)

listPosts(resp) == JsonThenOk(resp, "Failed to fetch posts: ")

createPostFetch(token, title, content, status, type, tags, categories, date) ==
  HttpRequest("POST", WpJson \o "/wp/v2/" \o Interp(DefaultParam(type, Str("post"))) \o "s",
              Bearer(token),
              Defined([title |-> title, content |-> content,
                       status |-> DefaultParam(status, Str("draft")),
                       tags |-> DefaultParam(tags, Arr(<<>>)),
                       categories |-> DefaultParam(categories, Arr(<<>>)),
                       date |-> DefaultParam(date, Null)]))

createPost(resp, type) ==
  JsonThenOk(resp, "Failed to create " \o Interp(DefaultParam(type, Str("post"))) \o ": ")

editPostFetch(token, postId, updatedFields) ==
  HttpRequest("POST", WpJson \o "/wp/v2/posts/" \o Interp(postId), Bearer(token),
              updatedFields)

editPost(resp) == JsonThenOk(resp, "Failed to edit post: ")

deletePostFetch(token, postId) ==
  HttpRequest("DELETE", WpJson \o "/wp/v2/posts/" \o Interp(postId), Bearer(token), NoBody)

deletePost(resp) == JsonThenOk(resp, "Failed to delete post: ")

\* data.length > 0 ? data[0].id : null
FirstIdOrNull(data) ==
  IF data.shape = "array" /\ Len(data.items) > 0 THEN data.items[1]["id"] ELSE Null

getCategoryIdByNameFetch(token, categoryName) ==
  HttpRequest("GET",
              WpJson \o "/wp/v2/categories?search=" \o encodeURIComponent(categoryName),
              Bearer(token), NoBody)

getCategoryIdByName(resp, categoryName) ==
  LET r == JsonThenOk(resp, "Failed to fetch category ID for name \""
                              \o Interp(categoryName) \o "\": ")
  IN  IF r.threw THEN r ELSE Return(FirstIdOrNull(r.value))

getTagIdByNameFetch(token, tagName) ==
  HttpRequest("GET", WpJson \o "/wp/v2/tags?search=" \o encodeURIComponent(tagName),
              Bearer(token), NoBody)

getTagIdByName(resp, tagName) ==
  LET r == JsonThenOk(resp, "Failed to fetch tag ID for name \""
                              \o Interp(tagName) \o "\": ")
  IN  IF r.threw THEN r ELSE Return(FirstIdOrNull(r.value))

\* the pairs searchPosts appends for searchType and searchValue
searchParams(searchType, searchValue) ==
  IF Truthy(searchType) /\ Truthy(searchValue)
  THEN CASE searchType = Str("contains") -> << Param("search", searchValue) >>
         [] searchType = Str("starts_with") ->
              << Param("title", Str(Interp(searchValue) \o "*")) >>
         [] searchType = Str("ends_with") ->
              << Param("title", Str("*" \o Interp(searchValue))) >>
         [] OTHER -> <<>>
  ELSE <<>>

\* the posts query of searchPosts, with the ids as they stand after the lookups
searchPostsFetch(token, searchType, searchValue, tagId, categoryId, type) ==
  HttpRequest("GET",
              WpJson \o "/wp/v2/" \o Interp(DefaultParam(type, Str("post"))) \o "s?"
                \o URLSearchParams(
                     searchParams(searchType, searchValue)
                       \o << Param("status", Str("any")) >>
                       \o (IF Truthy(tagId) THEN << Param("tags", tagId) >> ELSE <<>>)
                       \o (IF Truthy(categoryId)
                           THEN << Param("categories", categoryId) >> ELSE <<>>)),
              Bearer(token), NoBody)

\* searchPosts from `if (categoryName)` on
searchPostsFromCategory(token, searchType, searchValue, tagId, categoryId, categoryName, type) ==
  IF Truthy(categoryName)
  THEN Await("getCategoryIdByName", getCategoryIdByNameFetch(token, categoryName),
             [tagId |-> tagId, categoryId |-> categoryId])
  ELSE Await("searchPosts",
             searchPostsFetch(token, searchType, searchValue, tagId, categoryId, type),
             [tagId |-> tagId, categoryId |-> categoryId])

\* searchPosts from its first line to its first await
searchPostsStart(token, searchType, searchValue, tagId, tagName, categoryId, categoryName, type) ==
  IF Truthy(tagName)
  THEN Await("getTagIdByName", getTagIdByNameFetch(token, tagName),
             [tagId |-> tagId, categoryId |-> categoryId])
  ELSE searchPostsFromCategory(token, searchType, searchValue, tagId, categoryId,
                               categoryName, type)

\* searchPostsAfterTag without `if (!tagId) throw`
searchPostsAfterTagUnchecked(resp, token, searchType, searchValue, tagName, categoryId, categoryName, type) ==
  LET r == getTagIdByName(resp, tagName)
  IN  IF r.threw THEN Rethrow(r)
      ELSE searchPostsFromCategory(token, searchType, searchValue, r.value, categoryId,
                                   categoryName, type)

\* searchPosts resumed with the answer of the tag lookup
searchPostsAfterTag(resp, token, searchType, searchValue, tagName, categoryId, categoryName, type) ==
  LET r == getTagIdByName(resp, tagName)
  IN  IF r.threw THEN Rethrow(r)
      ELSE IF ~ Truthy(r.value)
      THEN Raise("No tag found with name \"" \o Interp(tagName) \o "\".")
      ELSE searchPostsFromCategory(token, searchType, searchValue, r.value, categoryId,
                                   categoryName, type)

\* searchPosts resumed with the answer of the category lookup
searchPostsAfterCategory(resp, token, searchType, searchValue, tagId, categoryName, type) ==
  LET r == getCategoryIdByName(resp, categoryName)
  IN  IF r.threw THEN Rethrow(r)
      ELSE IF ~ Truthy(r.value)
      THEN Raise("No category found with name \"" \o Interp(categoryName) \o "\".")
      ELSE Await("searchPosts",
                 searchPostsFetch(token, searchType, searchValue, tagId, r.value, type),
                 [tagId |-> tagId, categoryId |-> r.value])

\* searchPosts resumed with the answer of the posts query
searchPosts(resp) == JsonThenOk(resp, "Failed to search posts: ")

searchByMetaFetch(token, metaKey, metaValue, type) ==
  HttpRequest("GET",
              WpJson \o "/wp/v2/" \o Interp(DefaultParam(type, Str("post")))
                \o "s?meta_key=" \o Interp(metaKey) \o "&meta_value=" \o Interp(metaValue),
              Bearer(token), NoBody)

searchByMeta(resp) == JsonThenOk(resp, "Failed to search by meta: ")

updatePostMetaFetch(token, postId, metaKey, metaValue) ==
  HttpRequest("POST", WpJson \o "/custom/v1/update-meta/", Bearer(token),
              Defined([post_id |-> postId, meta_key |-> metaKey, meta_value |-> metaValue]))

updatePostMeta(resp) == JsonThenOk(resp, "Failed to update post meta: ")

getPostMetaFetch(token, postId) ==
  HttpRequest("GET", WpJson \o "/wp/v2/posts/" \o Interp(postId), Bearer(token), NoBody)

MetaNotAvailable == "Meta not available. Ensure it is exposed in the REST API."

\* returns data.meta, or the object {error: MetaNotAvailable}
getPostMeta(resp) ==
  LET r == JsonThenOk(resp, "Failed to fetch post meta: ")
  IN  IF r.threw THEN r
      ELSE IF Truthy(r.value.f["meta"]) THEN Return(r.value.f["meta"])
      ELSE Return([error |-> Str(MetaNotAvailable)])

deletePostMetaFetch(token, postId, metaKey) ==
  HttpRequest("POST", WpJson \o "/custom/v1/delete-meta/", Bearer(token),
              Defined([post_id |-> postId, meta_key |-> metaKey]))

deletePostMeta(resp) == JsonThenOk(resp, "Failed to delete post meta: ")

listCategoriesFetch(token) ==
  HttpRequest("GET", WpJson \o "/wp/v2/categories", Bearer(token), NoBody)

listCategories(resp) == JsonThenOk(resp, "Failed to fetch categories: ")

listTagsFetch(token) ==
  HttpRequest("GET", WpJson \o "/wp/v2/tags", Bearer(token), NoBody)

listTags(resp) == JsonThenOk(resp, "Failed to fetch tags: ")

\* the payload of updateCategoryOrTag: only the fields that are truthy
updatePayload(id, name, description) ==
  LET all == [id |-> id, name |-> name, description |-> description]
  IN  [k \in {x \in DOMAIN all : Truthy(all[x])} |-> all[k]]

updateCategoryOrTagFetch(token, id, name, description, type) ==
  HttpRequest("POST",
              WpJson \o (IF type = "categories" THEN "/custom/v1/update-category/"
                         ELSE "/custom/v1/update-tag/"),
              Bearer(token), updatePayload(id, name, description))

\* updateCategoryOrTag up to its await
updateCategoryOrTagStart(token, id, name, description, type) ==
  IF Cardinality(DOMAIN updatePayload(id, name, description)) < 2
  THEN Raise("At least one of name or description is required for updating "
               \o type \o ".")
  ELSE Await(IF type = "categories" THEN "updateCategory" ELSE "updateTag",
             updateCategoryOrTagFetch(token, id, name, description, type), NoLocal)

updateCategoryOrTag(resp, type) ==
  LET r == json(resp)
  IN  IF r.threw THEN r
      ELSE IF Ok(resp)
      THEN Return([message |->
                     Str((IF type = "categories" THEN "Category" ELSE "Tag")
                           \o " updated successfully"),
                   id |-> r.value.f["id"],
                   name |-> Or(r.value.f["name"], Null),
                   description |-> Or(r.value.f["description"], Null)])
      ELSE Throw("Failed to update " \o type \o ": " \o MessageOf(r.value))

addCategoryFetch(token, name, description) ==
  HttpRequest("POST", WpJson \o "/custom/v1/add-category/", Bearer(token),
              Defined([name |-> name, description |-> description]))

addCategory(resp) == JsonThenOk(resp, "Failed to add category: ")

deleteCategoryFetch(token, categoryId) ==
  HttpRequest("POST", WpJson \o "/custom/v1/delete-category/", Bearer(token),
              Defined([id |-> categoryId]))

deleteCategory(resp) == JsonThenOk(resp, "Failed to delete category: ")

addTagFetch(token, name, description) ==
  HttpRequest("POST", WpJson \o "/custom/v1/add-tag/", Bearer(token),
              Defined([name |-> name, description |-> description]))

addTag(resp) == JsonThenOk(resp, "Failed to add tag: ")

deleteTagFetch(token, tagId) ==
  HttpRequest("POST", WpJson \o "/custom/v1/delete-tag/", Bearer(token),
              Defined([id |-> tagId]))

deleteTag(resp) == JsonThenOk(resp, "Failed to delete tag: ")

\* listPaginatedPostsFetch with `page || 1` and `perPage || 20` for the defaults
listPaginatedPostsFetchFalsy(token, page, perPage) ==
  HttpRequest("GET",
              WpJson \o "/wp/v2/posts?page=" \o Interp(Or(page, Num(DefaultPage)))
                \o "&per_page=" \o Interp(Or(perPage, Num(DefaultPerPage))),
              Bearer(token), NoBody)

listPaginatedPostsFetch(token, page, perPage) ==
  HttpRequest("GET",
              WpJson \o "/wp/v2/posts?page=" \o Interp(DefaultParam(page, Num(DefaultPage)))
                \o "&per_page=" \o Interp(DefaultParam(perPage, Num(DefaultPerPage))),
              Bearer(token), NoBody)

listPaginatedPosts(resp) == OkThenJson(resp, "Failed to fetch paginated posts")

listPaginatedCategoriesFetch(token, page, perPage) ==
  HttpRequest("GET",
              WpJson \o "/wp/v2/categories?page="
                \o Interp(DefaultParam(page, Num(DefaultPage)))
                \o "&per_page=" \o Interp(DefaultParam(perPage, Num(DefaultPerPage))),
              Bearer(token), NoBody)

listPaginatedCategories(resp) == OkThenJson(resp, "Failed to fetch paginated categories")

listPaginatedTagsFetch(token, page, perPage) ==
  HttpRequest("GET",
              WpJson \o "/wp/v2/tags?page=" \o Interp(DefaultParam(page, Num(DefaultPage)))
                \o "&per_page=" \o Interp(DefaultParam(perPage, Num(DefaultPerPage))),
              Bearer(token), NoBody)

listPaginatedTags(resp) == OkThenJson(resp, "Failed to fetch paginated tags")

getPostContentByIdFetch(token, postId) ==
  HttpRequest("GET", WpJson \o "/wp/v2/posts/" \o Interp(postId), Bearer(token), NoBody)

\* returns data.content.rendered
getPostContentById(resp) ==
  LET r == OkThenJson(resp, "Failed to fetch post content")
  IN  IF r.threw THEN r
      ELSE IF r.value.f["content"].ty \in {"undefined", "null"}
      THEN Throw(ReadOfUndefined("rendered"))
      ELSE Return(r.value.f["content.rendered"])

getFeaturedImageFetch(token, postId) ==
  HttpRequest("GET", WpJson \o "/wp/v2/posts/" \o Interp(postId), Bearer(token), NoBody)

getFeaturedImageMediaFetch(token, featuredMedia) ==
  HttpRequest("GET", WpJson \o "/wp/v2/media/" \o Interp(featuredMedia), Bearer(token),
              NoBody)

\* getFeaturedImage resumed with the post: returns, or asks for the media
getFeaturedImagePost(resp) ==
  LET r == OkThenJson(resp, "Failed to fetch post details")
  IN  IF r.threw THEN r
      ELSE IF ~ Truthy(r.value.f["featured_media"]) THEN Return(Str("No featured image"))
      ELSE Return(Undefined)

\* getFeaturedImage resumed with the media
getFeaturedImage(resp) ==
  LET r == OkThenJson(resp, "Failed to fetch featured image details")
  IN  IF r.threw THEN r
      ELSE IF Truthy(r.value.f["guid"]) /\ Truthy(r.value.f["guid.rendered"])
      THEN Return(r.value.f["guid.rendered"])
      ELSE Return(Str("No featured image available"))

(***************************************************************************)
(* WordPressTool._call: the cases of the switch.  CaseX is the case block  *)
(* of action X up to its await, ResumeX the rest of the block once the     *)
(* awaited method is back.  d is the validated data.                       *)
(***************************************************************************)
\* posts.map((post) => ({ id: post.id, title: post.title.rendered }))
MapPosts(data) ==
  IF data.shape # "array" THEN Throw(NotAFunction("posts.map"))
  ELSE IF \E i \in 1..Len(data.items) : data.items[i]["title"].ty \in {"undefined", "null"}
  THEN Throw(ReadOfUndefined("rendered"))
  ELSE Return([i \in 1..Len(data.items) |->
                 [id |-> data.items[i]["id"], title |-> data.items[i]["title.rendered"]]])

\* return JSON.stringify(posts.map(...)) after method outcome r
ReturnPostList(r) ==
  IF r.threw THEN Rethrow(r)
  ELSE IF MapPosts(r.value).threw THEN Rethrow(MapPosts(r.value))
  ELSE Finish(StringifyList(MapPosts(r.value).value))

\* return JSON.stringify(data) after method outcome r
ReturnData(r) == IF r.threw THEN Rethrow(r) ELSE Finish(StringifyData(r.value))

CaseListPosts(d, token) == Await("listPosts", listPostsFetch(token), NoLocal)

ResumeListPosts(resp) == ReturnPostList(listPosts(resp))

CaseCreatePost(d, token) ==
  IF ~ Truthy(d["title"]) \/ ~ Truthy(d["content"])
  THEN Finish(ErrorEnvelope("Title and content are required for creating a post or page."))
  ELSE Await("createPost",
             createPostFetch(token, d["title"], d["content"],
                             Or(d["status"], Str("draft")), Or(d["type"], Str("post")),
                             Or(d["tags"], Arr(<<>>)), Or(d["categories"], Arr(<<>>)),
                             d["date"]),
             NoLocal)

\* ResumeCreatePost answering with the title of the request, not the remote's
ResumeCreatePostEchoing(d, resp) ==
  LET r == createPost(resp, Or(d["type"], Str("post")))
  IN  IF r.threw THEN Rethrow(r)
      ELSE IF r.value.f["title"].ty \in {"undefined", "null"}
      THEN Raise(ReadOfUndefined("rendered"))
      ELSE Finish(Stringify([message |-> Str(Interp(d["type"]) \o " created successfully"),
                             id |-> r.value.f["id"],
                             title |-> d["title"]]))

ResumeCreatePost(d, resp) ==
  LET r == createPost(resp, Or(d["type"], Str("post")))
  IN  IF r.threw THEN Rethrow(r)
      ELSE IF r.value.f["title"].ty \in {"undefined", "null"}
      THEN Raise(ReadOfUndefined("rendered"))
      ELSE Finish(Stringify([message |-> Str(Interp(d["type"]) \o " created successfully"),
                             id |-> r.value.f["id"],
                             title |-> r.value.f["title.rendered"]]))

\* UpdatedFields as the earlier revision's editPost filled its body
UpdatedFieldsDefaulted(d) ==
  Defined([title |-> d["title"], content |-> d["content"],
           status |-> Or(d["status"], Str("draft")), tags |-> Or(d["tags"], Arr(<<>>)),
           categories |-> Or(d["categories"], Arr(<<>>))])

\* the fields editPost collects: those of the five that are truthy
UpdatedFields(d) ==
  [k \in {x \in {"title", "content", "status", "tags", "categories"} : Truthy(d[x])}
     |-> d[k]]

CaseEditPost(d, token) ==
  IF ~ Truthy(d["postId"])
  THEN Finish(ErrorEnvelope("postId is required for editing a post or page."))
  ELSE IF Cardinality(DOMAIN UpdatedFields(d)) = 0
  THEN Finish(ErrorEnvelope("No fields provided for update."))
  ELSE Await("editPost", editPostFetch(token, d["postId"], UpdatedFields(d)), NoLocal)

ResumeEditPost(d, resp) ==
  LET r == editPost(resp)
  IN  IF r.threw THEN Rethrow(r)
      ELSE Finish(StringifyWith([message |-> Str("Post updated successfully"),
                                 id |-> r.value.f["id"]],
                                "updatedFields", UpdatedFields(d)))

CaseDeletePost(d, token) ==
  IF ~ Truthy(d["postId"])
  THEN Finish(Text("Error: postId is required for deleting a post."))
  ELSE Await("deletePost", deletePostFetch(token, d["postId"]), NoLocal)

ResumeDeletePost(resp) ==
  LET r == deletePost(resp)
  IN  IF r.threw THEN Rethrow(r)
      ELSE Finish(Stringify([message |-> Str("Post deleted successfully"),
                             postId |-> r.value.f["id"]]))

CaseSearchPosts(d, token) ==
  searchPostsStart(token, d["searchType"], d["searchValue"], d["tagId"], d["tagName"],
                   d["categoryId"], d["categoryName"], Or(d["type"], Str("post")))

ResumeSearchPostsTag(d, token, loc, resp) ==
  searchPostsAfterTag(resp, token, d["searchType"], d["searchValue"], d["tagName"],
                      loc.categoryId, d["categoryName"], Or(d["type"], Str("post")))

ResumeSearchPostsCategory(d, token, loc, resp) ==
  searchPostsAfterCategory(resp, token, d["searchType"], d["searchValue"], loc.tagId,
                           d["categoryName"], Or(d["type"], Str("post")))

ResumeSearchPosts(resp) == ReturnPostList(searchPosts(resp))

CaseListCategories(d, token) == Await("listCategories", listCategoriesFetch(token), NoLocal)

ResumeListCategories(resp) == ReturnData(listCategories(resp))

CaseListTags(d, token) == Await("listTags", listTagsFetch(token), NoLocal)

ResumeListTags(resp) == ReturnData(listTags(resp))

CaseSearchByMeta(d, token) ==
  IF ~ Truthy(d["metaKey"]) \/ ~ Truthy(d["metaValue"])
  THEN Finish(ErrorEnvelope("Meta key and value are required for searching."))
  ELSE Await("searchByMeta",
             searchByMetaFetch(token, d["metaKey"], d["metaValue"],
                               Or(d["type"], Str("post"))),
             NoLocal)

ResumeSearchByMeta(resp) == ReturnPostList(searchByMeta(resp))

CaseUpdatePostMeta(d, token) ==
  IF ~ Truthy(d["postId"]) \/ ~ Truthy(d["metaKey"]) \/ ~ Truthy(d["metaValue"])
  THEN Finish(ErrorEnvelope("postId, metaKey, and metaValue are required for updating meta."))
  ELSE Await("updatePostMeta",
             updatePostMetaFetch(token, d["postId"], d["metaKey"], d["metaValue"]),
             NoLocal)

ResumeUpdatePostMeta(resp) ==
  LET r == updatePostMeta(resp)
  IN  IF r.threw THEN Rethrow(r)
      ELSE Finish(Stringify([message |-> Str("Post meta updated successfully"),
                             postId |-> r.value.f["id"]]))

CaseGetPostMeta(d, token) ==
  IF ~ Truthy(d["postId"])
  THEN Finish(ErrorEnvelope("postId is required to fetch post meta."))
  ELSE Await("getPostMeta", getPostMetaFetch(token, d["postId"]), NoLocal)

ResumeGetPostMeta(d, resp) ==
  LET r == getPostMeta(resp)
  IN  IF r.threw THEN Rethrow(r)
      ELSE Finish(StringifyWith([postId |-> d["postId"]], "meta", r.value))

CaseDeletePostMeta(d, token) ==
  IF ~ Truthy(d["postId"]) \/ ~ Truthy(d["metaKey"])
  THEN Finish(ErrorEnvelope("postId is required to fetch post meta."))
  ELSE Await("deletePostMeta", deletePostMetaFetch(token, d["postId"], d["metaKey"]),
             NoLocal)

ResumeDeletePostMeta(resp) ==
  LET r == deletePostMeta(resp)
  IN  IF r.threw THEN Rethrow(r)
      ELSE Finish(Stringify([message |-> Str("Post meta deleted successfully"),
                             postId |-> r.value.f["id"]]))

\* the inner try/catch of the updateCategory and updateTag cases
InnerCatch(step) ==
  IF step.next = "throw" THEN Finish(ErrorEnvelope(step.result.text)) ELSE step

CaseUpdateCategory(d, token) ==
  IF ~ Truthy(d["categoryId"]) THEN Finish(ErrorEnvelope("categoryId is required."))
  ELSE IF ~ Truthy(d["name"]) /\ ~ Truthy(d["description"])
  THEN Finish(ErrorEnvelope("At least one of name or description is required."))
  ELSE InnerCatch(updateCategoryOrTagStart(token, d["categoryId"], d["name"],
                                           d["description"], "categories"))

ResumeUpdateCategory(resp) ==
  LET r == updateCategoryOrTag(resp, "categories")
  IN  InnerCatch(IF r.threw THEN Rethrow(r) ELSE Finish(Stringify(r.value)))

CaseUpdateTag(d, token) ==
  IF ~ Truthy(d["tagId"]) THEN Finish(ErrorEnvelope("tagId is required."))
  ELSE IF ~ Truthy(d["name"]) /\ ~ Truthy(d["description"])
  THEN Finish(ErrorEnvelope("At least one of name or description is required."))
  ELSE InnerCatch(updateCategoryOrTagStart(token, d["tagId"], d["name"],
                                           d["description"], "tags"))

ResumeUpdateTag(resp) ==
  LET r == updateCategoryOrTag(resp, "tags")
  IN  InnerCatch(IF r.threw THEN Rethrow(r) ELSE Finish(Stringify(r.value)))

CaseAddCategory(d, token) ==
  IF ~ Truthy(d["name"]) THEN Finish(ErrorEnvelope("Category name is required."))
  ELSE Await("addCategory", addCategoryFetch(token, d["name"], d["description"]), NoLocal)

ResumeAddCategory(resp) == ReturnData(addCategory(resp))

\* CaseAddTag running the statements of case 'addCategory'
CaseAddTagMisrouted(d, token) == CaseAddCategory(d, token)

CaseAddTag(d, token) ==
  IF ~ Truthy(d["name"]) THEN Finish(ErrorEnvelope("Tag name is required."))
  ELSE Await("addTag", addTagFetch(token, d["name"], d["description"]), NoLocal)

ResumeAddTag(resp) == ReturnData(addTag(resp))

CaseDeleteCategory(d, token) ==
  IF ~ Truthy(d["categoryId"]) THEN Finish(ErrorEnvelope("Category ID is required."))
  ELSE Await("deleteCategory", deleteCategoryFetch(token, d["categoryId"]), NoLocal)

ResumeDeleteCategory(resp) == ReturnData(deleteCategory(resp))

CaseDeleteTag(d, token) ==
  IF ~ Truthy(d["tagId"]) THEN Finish(ErrorEnvelope("Tag ID is required."))
  ELSE Await("deleteTag", deleteTagFetch(token, d["tagId"]), NoLocal)

ResumeDeleteTag(resp) == ReturnData(deleteTag(resp))

CaseListPaginatedPosts(d, token) ==
  Await("listPaginatedPosts", listPaginatedPostsFetch(token, d["page"], d["perPage"]),
        NoLocal)

ResumeListPaginatedPosts(resp) == ReturnPostList(listPaginatedPosts(resp))

CaseGetPostContentById(d, token) ==
  IF ~ Truthy(d["postId"]) THEN Finish(ErrorEnvelope("postId is required"))
  ELSE Await("getPostContentById", getPostContentByIdFetch(token, d["postId"]), NoLocal)

ResumeGetPostContentById(d, resp) ==
  LET r == getPostContentById(resp)
  IN  IF r.threw THEN Rethrow(r)
      ELSE Finish(Stringify([postId |-> d["postId"], content |-> r.value]))

CaseGetFeaturedImage(d, token) ==
  IF ~ Truthy(d["postId"]) THEN Finish(ErrorEnvelope("postId is required"))
  ELSE Await("getFeaturedImage", getFeaturedImageFetch(token, d["postId"]), NoLocal)

ResumeGetFeaturedImagePost(d, token, resp) ==
  LET r == getFeaturedImagePost(resp)
  IN  IF r.threw THEN Rethrow(r)
      ELSE IF r.value # Undefined
      THEN Finish(Stringify([postId |-> d["postId"], imageUrl |-> r.value]))
      ELSE Await("getFeaturedImageMedia",
                 getFeaturedImageMediaFetch(token, resp.body.f["featured_media"]), NoLocal)

ResumeGetFeaturedImage(d, resp) ==
  LET r == getFeaturedImage(resp)
  IN  IF r.threw THEN Rethrow(r)
      ELSE Finish(Stringify([postId |-> d["postId"], imageUrl |-> r.value]))

CaseListPaginatedCategories(d, token) ==
  Await("listPaginatedCategories",
        listPaginatedCategoriesFetch(token, d["page"], d["perPage"]), NoLocal)

ResumeListPaginatedCategories(resp) == ReturnData(listPaginatedCategories(resp))

CaseListPaginatedTags(d, token) ==
  Await("listPaginatedTags", listPaginatedTagsFetch(token, d["page"], d["perPage"]),
        NoLocal)

ResumeListPaginatedTags(resp) == ReturnData(listPaginatedTags(resp))

Unsupported(d) ==
  Finish(ErrorEnvelope("Unsupported action \"" \o Interp(d["action"]) \o "\"."))

\* switch (action) of structured/WordPressTool.js
Switch(d, token) ==
  LET action == d["action"].s
  IN  CASE action = "listPosts" -> CaseListPosts(d, token)
        [] action = "createPost" -> CaseCreatePost(d, token)
        [] action = "editPost" -> CaseEditPost(d, token)
        [] action = "deletePost" -> CaseDeletePost(d, token)
        [] action = "searchPosts" -> CaseSearchPosts(d, token)
        [] action = "listCategories" -> CaseListCategories(d, token)
        [] action = "listTags" -> CaseListTags(d, token)
        [] action = "searchByMeta" -> CaseSearchByMeta(d, token)
        [] action = "updatePostMeta" -> CaseUpdatePostMeta(d, token)
        [] action = "getPostMeta" -> CaseGetPostMeta(d, token)
        [] action = "deletePostMeta" -> CaseDeletePostMeta(d, token)
        [] action = "updateCategory" -> CaseUpdateCategory(d, token)
        [] action = "updateTag" -> CaseUpdateTag(d, token)
        [] action = "addCategory" -> CaseAddCategory(d, token)
        [] action = "addTag" -> CaseAddTag(d, token)
        [] action = "deleteCategory" -> CaseDeleteCategory(d, token)
        [] action = "deleteTag" -> CaseDeleteTag(d, token)
        [] action = "listPaginatedPosts" -> CaseListPaginatedPosts(d, token)
        [] action = "getPostContentById" -> CaseGetPostContentById(d, token)
        [] action = "getFeaturedImage" -> CaseGetFeaturedImage(d, token)
        [] action = "listPaginatedCategories" -> CaseListPaginatedCategories(d, token)
        [] action = "listPaginatedTags" -> CaseListPaginatedTags(d, token)
        [] OTHER -> Unsupported(d)

(***************************************************************************)
(* The earlier revision of WordPressTool (tools/index.js): its schema      *)
(* declares tagName and categoryName, it has seven cases, and its editPost *)
(* sends all five fields.  The other methods are those above.              *)
(***************************************************************************)
editPostEarlierFetch(token, postId, title, content, status, tags, categories) ==
  HttpRequest("POST", WpJson \o "/wp/v2/posts/" \o Interp(postId), Bearer(token),
              Defined([title |-> title, content |-> content,
                       status |-> DefaultParam(status, Str("draft")),
                       tags |-> DefaultParam(tags, Arr(<<>>)),
                       categories |-> DefaultParam(categories, Arr(<<>>))]))

CaseEditPostEarlier(d, token) ==
  IF ~ Truthy(d["postId"])
  THEN Finish(ErrorEnvelope("postId is required for editing a post or page."))
  ELSE Await("editPostEarlier",
             editPostEarlierFetch(token, d["postId"], d["title"], d["content"],
                                  Or(d["status"], Str("draft")), Or(d["tags"], Arr(<<>>)),
                                  Or(d["categories"], Arr(<<>>))),
             NoLocal)

ResumeEditPostEarlier(resp) ==
  LET r == editPost(resp)
  IN  IF r.threw THEN Rethrow(r)
      ELSE IF r.value.f["title"].ty \in {"undefined", "null"}
      THEN Raise(ReadOfUndefined("rendered"))
      ELSE Finish(Stringify([message |-> Str("Post updated successfully"),
                             id |-> r.value.f["id"],
                             title |-> r.value.f["title.rendered"]]))

\* switch (action) of the earlier revision
SwitchEarlier(d, token) ==
  LET action == d["action"].s
  IN  CASE action = "listPosts" -> CaseListPosts(d, token)
        [] action = "createPost" -> CaseCreatePost(d, token)
        [] action = "editPost" -> CaseEditPostEarlier(d, token)
        [] action = "deletePost" -> CaseDeletePost(d, token)
        [] action = "searchPosts" -> CaseSearchPosts(d, token)
        [] action = "listCategories" -> CaseListCategories(d, token)
        [] action = "listTags" -> CaseListTags(d, token)
        [] OTHER -> Unsupported(d)

(***************************************************************************)
(* PortdoxTool.  Its requests go through axios, which rejects on a         *)
(* transport failure and on every status outside 200..299, and gives the   *)
(* parsed body as response.data.  The messages are those of the source     *)
(* without their leading pictograph.                                       *)
(***************************************************************************)
laravelApiUrl == "https://login.portdox.com/api/list_load_requests"
updateContainerApiUrl == "https://login.portdox.com/api/submit_temp_container"
laravelAuthToken == "454541121asdf45adfa454f545"
PdDefaultPage == 1
PdDefaultPerPage == 5

\* await axios.get(...) / axios.post(...)
axios(resp) ==
  IF resp.net = "failed" THEN Throw("Network Error")
  ELSE IF ~ Ok(resp) THEN Throw("Request failed with status code " \o ToString(resp.status))
  ELSE Return(resp.body)

getLoadRequestsFetch(page, per_page, ref_number) ==
  HttpRequest("GET",
              laravelApiUrl \o "?"
                \o URLSearchParams(
                     << Param("auth_token", Str(laravelAuthToken)),
                        Param("page", DefaultParam(page, Num(PdDefaultPage))),
                        Param("per_page", DefaultParam(per_page, Num(PdDefaultPerPage))) >>
                       \o (IF Truthy(DefaultParam(ref_number, Null))
                           THEN << Param("ref_number", ref_number) >> ELSE <<>>)),
              "", NoBody)

LoadLine(item) ==
  "- Load ID: " \o Interp(item["load_id"]) \o " Ref: " \o Interp(item["ref_number"])
    \o " | Total: " \o Interp(item["total_cars"])

RECURSIVE JoinLines(_)
JoinLines(items) ==
  IF items = <<>> THEN ""
  ELSE LoadLine(items[1]) \o (IF Len(items) > 1 THEN "\n" ELSE "")
         \o JoinLines(Tail(items))

\* getLoadRequests once the response is there; it catches what it throws
getLoadRequests(resp) ==
  LET r == axios(resp)
  IN  IF r.threw THEN Text("Laravel API Error: " \o r.message)
      ELSE IF ~ Truthy(r.value.f["success"])
      THEN Text("API Error: " \o Interp(r.value.f["error"]))
      ELSE IF r.value.f["data"].ty \in {"undefined", "null"}
      THEN Text("Laravel API Error: " \o ReadOfUndefined("data"))
      ELSE IF r.value.f["data.data"].ty \in {"undefined", "null"}
      THEN Text("Laravel API Error: " \o ReadOfUndefined("map"))
      ELSE IF r.value.f["data.data"].ty # "array"
      THEN Text("Laravel API Error: " \o NotAFunction("response.data.data.data.map"))
      ELSE Text(JoinLines(r.value.items))

\* the fields _call hands to updateContainer, in the order it lists them
ContainerFields ==
  {"container_number", "container_type", "seal_no_1", "seal_no_2",
   "empty_pickup_date", "full_return_date", "booking_id", "container_status",
   "load_id"}

updateContainerFetch(data) ==
  HttpRequest("POST", updateContainerApiUrl, "",
              Defined([k \in ContainerFields \cup {"auth_token"} |->
                         IF k = "auth_token" THEN Str(laravelAuthToken) ELSE data[k]]))

\* updateContainer without its check of load_id
updateContainerStartUnchecked(data) ==
  Await("updateContainer", updateContainerFetch(data), NoLocal)

updateContainerStart(data) ==
  IF ~ Truthy(data["load_id"]) THEN Finish(Text("Error: Load ID is required for updating."))
  ELSE Await("updateContainer", updateContainerFetch(data), NoLocal)

updateContainer(resp, data) ==
  LET r == axios(resp)
  IN  IF r.threw THEN Text("Update API Error: " \o r.message)
      ELSE IF Truthy(r.value.f["success"])
      THEN Text("Container " \o Interp(data["container_number"]) \o " updated successfully.")
      ELSE Text("Update Error: " \o Interp(r.value.f["error"]))

\* this.schema.parse(args): throws a ZodError whose message lists the issues
parse(schema, args) ==
  IF safeParse(schema, args).success THEN Return(safeParse(schema, args).data)
  ELSE Throw(IssuesJson(schema, args))

\* PortdoxTool._call: catch (error) { return `Plugin Error: ${error.message}` }
PortdoxCatch(step) ==
  IF step.next = "throw" THEN Finish(Text("Plugin Error: " \o step.result.text)) ELSE step

\* the body of the try of PortdoxTool._call, from its first line to its first await
PortdoxTry(args) ==
  LET v == parse(PdSchema, args)
      d == v.value
  IN  IF v.threw THEN Rethrow(v)
      ELSE IF d["action"] = Str("list_load_requests")
      THEN Await("getLoadRequests",
                 getLoadRequestsFetch(d["page"], d["per_page"], d["ref_number"]), NoLocal)
      ELSE IF d["action"] = Str("search_by_ref")
      THEN IF ~ Truthy(d["ref_number"])
           THEN Finish(Text("Error: Reference number is required for searching."))
           ELSE Await("getLoadRequests",
                      getLoadRequestsFetch(Undefined, Undefined, d["ref_number"]), NoLocal)
      ELSE IF d["action"] = Str("update_container")
      THEN IF ~ Truthy(d["container_number"])
           THEN Finish(Text("Error: Container number is required for updating."))
           ELSE updateContainerStart(d)
      ELSE Finish(Text("Error: Invalid action specified."))

(***************************************************************************)
(* WordPressTool._call: the try block and its catch.                       *)
(***************************************************************************)
\* TryCatch without the catch: what is thrown leaves _call
TryWithoutCatch(step) == step

\* catch (error) { console.error(error); return JSON.stringify({ error: error.message }) }
TryCatch(step) ==
  IF step.next = "throw" THEN Finish(ErrorEnvelope(step.result.text)) ELSE step

\* CallStart without the early return on a failed validation
CallStartUnvalidated(schema, a) == Await("getToken", getTokenFetch, NoLocal)

\* _call from its first line to the await of getToken
CallStart(schema, a) ==
  IF ~ safeParse(schema, a).success
  THEN Finish(Text("Validation Error: " \o IssuesJson(schema, a)))
  ELSE Await("getToken", getTokenFetch, NoLocal)

\* CallDispatch handing on a token kept from before, not the exchange's answer
CallDispatchStale(t, d, resp) ==
  LET r == getToken(resp)
  IN  IF r.threw THEN Rethrow(r)
      ELSE IF t = "WordPressTool" THEN Switch(d, Str("kept"))
      ELSE SwitchEarlier(d, Str("kept"))

\* _call resumed with the answer of the token exchange, to its next await
CallDispatch(t, d, resp) ==
  LET r == getToken(resp)
  IN  IF r.threw THEN Rethrow(r)
      ELSE IF t = "WordPressTool" THEN Switch(d, r.value)
      ELSE SwitchEarlier(d, r.value)

(***************************************************************************)
(* FluxAPI (tools/index.js).  _call validates nothing but the prompt and   *)
(* has no try/catch of its own around the loop.  For each image it submits *)
(* a task, then polls its result every two seconds until the status is     *)
(* Ready or Error, then has processFileURL save the image.  l is the state *)
(* of the loop: the locals of _call.                                       *)
(***************************************************************************)
FluxBaseUrl == "https://api.bfl.ml"
FluxApiKey == "flux-key"
FluxDefaultImages == 1
FluxMaxImages == 24
FluxDefaultEndpoint == "/v1/flux-pro"
NotJsonText == "<html>Bad Gateway</html>"
DisplayedAnImage == "DALL-E displayed an image."

\* a value that is not a string: the array [content, artifact]
Tuple(content, artifact) ==
  [how |-> "return", form |-> "tuple", text |-> content, val |-> artifact]
\* a function that ends without a return statement
ReturnedUndefined == [how |-> "return", form |-> "undefined", text |-> "", val |-> <<>>]

\* this.result: {'Markdown Embeds for User': embeds}
Embeds(embeds) == [ty |-> "object", s |-> "", n |-> 0, a |-> embeds]

wrapInMarkdown(imageUrl) == "![generated image](" \o imageUrl \o ")"

\* returnValue has no return for a tool that is not an agent's
returnValue(isAgent, value) ==
  IF isAgent /\ value.ty = "string" THEN Tuple(value.s, <<>>)
  ELSE IF isAgent /\ value.ty = "object" THEN Tuple(DisplayedAnImage, value.a)
  ELSE ReturnedUndefined

\* Math.min(Math.max(number_of_images, 1), 24)
totalImages(number_of_images) ==
  LET n == DefaultParam(number_of_images, Num(FluxDefaultImages)).n
  IN  IF n < 1 THEN 1 ELSE IF n > FluxMaxImages THEN FluxMaxImages ELSE n

payload(d) ==
  Defined([prompt |-> d["prompt"],
           width |-> DefaultParam(d["width"], Num(1024)),
           height |-> DefaultParam(d["height"], Num(768)),
           steps |-> DefaultParam(d["steps"], Num(40)),
           prompt_upsampling |-> DefaultParam(d["prompt_upsampling"], Bool(FALSE)),
           seed |-> DefaultParam(d["seed"], Null),
           safety_tolerance |-> DefaultParam(d["safety_tolerance"], Num(6)),
           output_format |-> DefaultParam(d["output_format"], Str("png")),
           raw |-> DefaultParam(d["raw"], Bool(FALSE))])

\* axios.post(generateUrl, payload, { headers })
submitFetch(d) ==
  HttpRequest("POST",
              FluxBaseUrl \o Interp(DefaultParam(d["endpoint"], Str(FluxDefaultEndpoint))),
              "x-key " \o FluxApiKey, payload(d))

\* axios.get(resultUrl, { headers, params: { id: taskId } }); axios leaves a
\* parameter that is undefined out of the query
resultFetch(taskId) ==
  HttpRequest("GET",
              FluxBaseUrl \o "/v1/get_result"
                \o (IF taskId.ty = "undefined" THEN ""
                    ELSE "?" \o URLSearchParams(<<Param("id", taskId)>>)),
              "x-key " \o FluxApiKey, NoBody)

\* this.processFileURL({ URL: imageUrl, ... }): the download of the image
processFileURLFetch(imageUrl) == HttpRequest("GET", Interp(imageUrl), "", NoBody)

\* the callback resolves with the saved file or rejects
processFileURL(resp) ==
  IF resp.net = "failed" \/ ~ Ok(resp) THEN Throw(FetchFailed)
  ELSE Return(resp.body.f["filepath"])

\* error?.response?.data || error.message, as the template literal prints it
ErrorDetails(resp) ==
  IF resp.net = "failed" THEN "Network Error"
  ELSE IF resp.body.shape = "object" THEN "[object Object]"
  ELSE IF resp.body.shape = "unparseable" THEN NotJsonText
  ELSE "Request failed with status code " \o ToString(resp.status)

FluxAwait(label, requests, l) ==
  [next |-> label, send |-> requests, result |-> NoResult, local |-> l]
FluxReturn(l, value) ==
  [next |-> "done", send |-> <<>>, result |-> returnValue(l.isAgent, value), local |-> l]

\* the head of `for (let i = 0; i < totalImages; i++)` and, after the loop,
\* the embeds assigned to this.result and returned
FluxLoop(l, d) ==
  IF l.i < l.totalImages
  THEN FluxAwait("submit", <<submitFetch(d)>>,
                 [l EXCEPT !.taskId = Undefined, !.status = Undefined, !.polls = 0])
  ELSE FluxReturn(l, Embeds(l.imagesMarkdown))
         @@ [write |-> [result |-> Embeds(l.imagesMarkdown)]]

\* _call(data) up to its first await
FluxStart(isAgent, d) ==
  LET l == [isAgent |-> isAgent, i |-> 0, totalImages |-> totalImages(d["number_of_images"]),
            taskId |-> Undefined, status |-> Undefined, polls |-> 0,
            imagesMarkdown |-> <<>>]
  IN  IF ~ Truthy(d["prompt"])
      THEN [next |-> "throw", send |-> <<>>,
            result |-> Thrown("Missing required field: prompt"), local |-> l]
      ELSE FluxLoop(l, d)

\* the submit is answered: the error is returned, or the polling starts with
\* status 'Pending' and the first two-second wait
FluxSubmitted(l, resp) ==
  LET r == axios(resp)
  IN  IF r.threw
      THEN FluxReturn(l, Str("Something went wrong when trying to generate the image. "
                               \o "The Flux API may be unavailable: Error Message: "
                               \o ErrorDetails(resp)))
      ELSE FluxAwait("wait", <<>>,
                     [l EXCEPT !.taskId = r.value.f["id"], !.status = Str("Pending")])

\* the two seconds are over: the poll is sent
FluxPoll(l) ==
  FluxAwait("poll", IF l.polls < MaxPolls THEN <<resultFetch(l.taskId)>> ELSE <<>>,
            [l EXCEPT !.polls = IF @ < MaxPolls THEN @ + 1 ELSE @])

\* FluxPolled with a loop that ends on Ready only
FluxPolledPastError(l, d, resp) ==
  LET r == axios(resp)
      status == r.value.f["status"]
  IN  IF r.threw
      THEN FluxReturn(l, Str("An error occurred while retrieving the image."))
      ELSE IF status = Str("Ready")
      THEN IF ~ Truthy(r.value.f["result"]) \/ ~ Truthy(r.value.f["result.sample"])
           THEN FluxReturn([l EXCEPT !.status = status],
                           Str("No image data received from Flux API."))
           ELSE FluxAwait("save", <<processFileURLFetch(r.value.f["result.sample"])>>,
                          [l EXCEPT !.status = status])
      ELSE FluxAwait("wait", <<>>, [l EXCEPT !.status = status])

\* FluxPolled going on to the next image before the image is saved
FluxPolledWithoutSave(l, d, resp) ==
  LET r == axios(resp)
      status == r.value.f["status"]
  IN  IF r.threw
      THEN FluxReturn(l, Str("An error occurred while retrieving the image."))
      ELSE IF status = Str("Ready")
      THEN IF ~ Truthy(r.value.f["result"]) \/ ~ Truthy(r.value.f["result.sample"])
           THEN FluxReturn([l EXCEPT !.status = status],
                           Str("No image data received from Flux API."))
           ELSE FluxLoop([l EXCEPT !.status = status, !.i = @ + 1,
                                   !.imagesMarkdown =
                                     Append(@, wrapInMarkdown(Interp(r.value.f["result.sample"])))],
                         d)
      ELSE IF status = Str("Error")
      THEN FluxReturn([l EXCEPT !.status = status],
                      Str("An error occurred during image generation."))
      ELSE FluxAwait("wait", <<>>, [l EXCEPT !.status = status])

\* the poll is answered
FluxPolled(l, d, resp) ==
  LET r == axios(resp)
      status == r.value.f["status"]
  IN  IF r.threw
      THEN FluxReturn(l, Str("An error occurred while retrieving the image."))
      ELSE IF status = Str("Ready")
      THEN IF ~ Truthy(r.value.f["result"]) \/ ~ Truthy(r.value.f["result.sample"])
           THEN FluxReturn([l EXCEPT !.status = status],
                           Str("No image data received from Flux API."))
           ELSE FluxAwait("save", <<processFileURLFetch(r.value.f["result.sample"])>>,
                          [l EXCEPT !.status = status])
      ELSE IF status = Str("Error")
      THEN FluxReturn([l EXCEPT !.status = status],
                      Str("An error occurred during image generation."))
      ELSE FluxAwait("wait", <<>>, [l EXCEPT !.status = status])

\* processFileURL is back: the embed is appended and the loop goes on
FluxSaved(l, d, resp) ==
  LET r == processFileURL(resp)
  IN  IF r.threw
      THEN FluxReturn(l, Str("Failed to save the image locally. " \o r.message))
      ELSE FluxLoop([l EXCEPT !.i = @ + 1,
                              !.imagesMarkdown = Append(@, wrapInMarkdown(Interp(r.value)))],
                    d)

(***************************************************************************)
(* Construction.  A constructor reads the fields it is given and           *)
(* process.env, and either throws or leaves an instance: a mapping from    *)
(* the names of the instance fields to their values.                       *)
(***************************************************************************)
CredentialKeys ==
  {"WORDPRESS_BASE_URL", "WORDPRESS_USERNAME", "WORDPRESS_PASSWORD", "FLUX_API_KEY"}
FieldKeys == CredentialKeys \cup {"override", "isAgent"}
InstanceKeys ==
  {"baseUrl", "username", "password", "laravelApiUrl", "updateContainerApiUrl",
   "laravelAuthToken", "override", "isAgent", "apiKey", "result"}

NoFields == [k \in FieldKeys |-> Undefined]
NoEnv == [k \in CredentialKeys |-> Undefined]
NoInstance == [k \in InstanceKeys |-> Undefined]
\* the instance whose fields are set as in `set`
Instance(set) == [k \in InstanceKeys |-> IF k \in DOMAIN set THEN set[k] ELSE Undefined]
\* the instance after the assignments `write` to fields of this
Written(this, step) ==
  IF "write" \in DOMAIN step
  THEN [k \in InstanceKeys |-> IF k \in DOMAIN step.write THEN step.write[k] ELSE this[k]]
  ELSE this

\* new WordPressTool(fields)
WordPressToolNew(fields, environment) ==
  LET baseUrl == Or(fields["WORDPRESS_BASE_URL"], environment["WORDPRESS_BASE_URL"])
      username == Or(fields["WORDPRESS_USERNAME"], environment["WORDPRESS_USERNAME"])
      password == Or(fields["WORDPRESS_PASSWORD"], environment["WORDPRESS_PASSWORD"])
  IN  IF ~ Truthy(baseUrl) \/ ~ Truthy(username) \/ ~ Truthy(password)
      THEN Throw("WordPress credentials or base URL are missing.")
      ELSE Return(Instance([baseUrl |-> baseUrl, username |-> username,
                            password |-> password]))

\* new PortdoxTool()
PortdoxToolNew ==
  Return(Instance([laravelApiUrl |-> Str(laravelApiUrl),
                   updateContainerApiUrl |-> Str(updateContainerApiUrl),
                   laravelAuthToken |-> Str(laravelAuthToken)]))

\* getApiKey without its check of the key
getApiKeyLenient(environment, override) ==
  Return(Or(environment["FLUX_API_KEY"], Str("")))

\* this.getApiKey()
getApiKey(environment, override) ==
  LET apiKey == Or(environment["FLUX_API_KEY"], Str(""))
  IN  IF ~ Truthy(apiKey) /\ ~ Truthy(override)
      THEN Throw("Missing FLUX_API_KEY environment variable.")
      ELSE Return(apiKey)

\* new FluxAPI(fields)
FluxAPINew(fields, environment) ==
  LET override == IF fields["override"].ty \in {"undefined", "null"} THEN Bool(FALSE)
                  ELSE fields["override"]
      key == IF Truthy(fields["FLUX_API_KEY"]) THEN Return(fields["FLUX_API_KEY"])
             ELSE getApiKey(environment, override)
  IN  IF key.threw THEN key
      ELSE Return(Instance([override |-> override, isAgent |-> fields["isAgent"],
                            apiKey |-> key.value]))

\* the fields the tools of the deployment are constructed with
WordPressFields ==
  [NoFields EXCEPT !["WORDPRESS_BASE_URL"] = Str(BaseUrl),
                   !["WORDPRESS_USERNAME"] = Str(Username),
                   !["WORDPRESS_PASSWORD"] = Str(Password)]
FluxFieldsOf(isAgent) ==
  [NoFields EXCEPT !["FLUX_API_KEY"] = Str(FluxApiKey),
                   !["isAgent"] = IF isAgent THEN Bool(TRUE) ELSE Undefined]

(***************************************************************************)
(* The environment: the requests the agent makes and the answers of the    *)
(* remote.                                                                 *)
(***************************************************************************)
Ids == {Undefined} \cup {Num(i) : i \in 0..MaxId}
Pages == {Undefined} \cup {Num(i) : i \in 0..MaxPage}
Titles == {Undefined, Str("T"), Str(""), Num(7)}
Contents == {Undefined, Str("C")}
Statuses == {Undefined, Str("publish"), Str("archived")}
Types == {Undefined, Str("post"), Str("page")}
TagLists == {Undefined, Arr(<<>>), Arr(<<3>>)}
CategoryLists == {Undefined, Arr(<<4>>)}
Dates == {Undefined, Str("2025-01-20T10:00:00")}
Names == {Undefined, Str("my tag")}
Texts == {Undefined, Str(""), Str("v")}

CreatePostRequests ==
  { Req("createPost", [title |-> t, content |-> c, status |-> st, type |-> ty,
                       tags |-> tg, categories |-> cg, date |-> dt]) :
      t \in Titles, c \in Contents, st \in Statuses, ty \in Types, tg \in TagLists,
      cg \in CategoryLists, dt \in Dates }

EditPostRequests ==
  { Req("editPost", [postId |-> id, title |-> t, content |-> c, status |-> st,
                     type |-> ty, tags |-> tg, categories |-> cg]) :
      id \in Ids, t \in {Undefined, Str("T")}, c \in Contents,
      st \in {Undefined, Str("publish")}, ty \in {Undefined, Str("page")},
      tg \in TagLists, cg \in CategoryLists }

SearchPostsRequests ==
  { Req("searchPosts", [searchType |-> sty, searchValue |-> sv, tagId |-> tid,
                        tagName |-> tn, categoryId |-> cid, categoryName |-> cn,
                        type |-> ty]) :
      sty \in {Undefined, Str("contains"), Str("starts_with"), Str("ends_with")},
      sv \in {Undefined, Str(""), Str("my kw")}, tid \in Ids, tn \in Names,
      cid \in {Undefined, Num(MaxId)}, cn \in {Undefined, Str("tech")},
      ty \in {Undefined, Str("page")} }

PaginatedRequests ==
  { Req(act, [page |-> pg, perPage |-> pp]) :
      act \in {"listPaginatedPosts", "listPaginatedCategories", "listPaginatedTags"},
      pg \in Pages \cup {Str("2")}, pp \in Pages }

MetaRequests ==
  { Req(act, [postId |-> id, metaKey |-> mk, metaValue |-> mv, type |-> ty]) :
      act \in {"searchByMeta", "updatePostMeta", "getPostMeta", "deletePostMeta"},
      id \in Ids, mk \in {Undefined, Str("age")}, mv \in Texts,
      ty \in {Undefined, Str("page")} }

TermRequests ==
  { Req(act, [categoryId |-> cid, tagId |-> tid, name |-> nm, description |-> ds]) :
      act \in {"updateCategory", "updateTag", "addCategory", "addTag",
               "deleteCategory", "deleteTag"},
      cid \in Ids, tid \in Ids, nm \in Names, ds \in {Undefined, Str("about")} }

PostRequests ==
  { Req(act, [postId |-> id, extra |-> x]) :
      act \in {"getPostContentById", "getFeaturedImage", "listCategories", "listTags",
               "listPosts", "deletePost", "bogus"},
      id \in Ids, x \in {Undefined, Str("x")} }

\* the requests made to the tool of structured/WordPressTool.js; NoArgs is {}
WpRequests ==
  CreatePostRequests \cup EditPostRequests \cup SearchPostsRequests
    \cup PaginatedRequests \cup MetaRequests \cup TermRequests \cup PostRequests
    \cup {NoArgs}

\* the requests made to the earlier revision
WpEarlierRequests ==
  CreatePostRequests \cup EditPostRequests \cup SearchPostsRequests \cup PostRequests
    \cup {NoArgs}

PdRequests ==
  { Req("list_load_requests", [page |-> pg, per_page |-> pp, ref_number |-> rf]) :
      pg \in Pages, pp \in Pages, rf \in {Undefined, Str(""), Str("R1")} }
    \cup { Req("search_by_ref", [ref_number |-> rf]) :
             rf \in {Undefined, Str(""), Str("R1"), Num(5)} }
    \cup { Req("update_container", [container_number |-> cn, load_id |-> ld,
                                    container_type |-> ct, seal_no_1 |-> sl]) :
             cn \in {Undefined, Str(""), Str("C1")}, ld \in {Undefined, Str(""), Str("L1")},
             ct \in {Undefined, Str("40HC")}, sl \in {Undefined, Num(1)} }
    \cup {Req("bogus", <<>>), NoArgs}

\* the elements of the lists the remote answers
GoodItem ==
  Members(("id" :> Num(7)) @@ ("title" :> Object) @@ ("title.rendered" :> Str("T"))
            @@ ("name" :> Str("my tag")) @@ ("load_id" :> Str("L1"))
            @@ ("ref_number" :> Str("R1")) @@ ("total_cars" :> Num(3)))
ItemWithoutTitle == Members(("id" :> Num(8)) @@ ("name" :> Str("other")))
ItemWithoutId == Members(("title" :> Object) @@ ("title.rendered" :> Str("T")))
Items == {GoodItem, ItemWithoutTitle, ItemWithoutId}

RECURSIVE Lists(_)
Lists(n) ==
  IF n = 0 THEN {<<>>}
  ELSE Lists(n - 1) \cup {Append(l, i) : l \in {x \in Lists(n - 1) : Len(x) = n - 1}, i \in Items}

FullObject(rendered) ==
  JsonObject(("id" :> Num(7)) @@ ("title" :> Object) @@ ("title.rendered" :> Str(rendered))
               @@ ("content" :> Object) @@ ("content.rendered" :> Str("<p>C</p>"))
               @@ ("featured_media" :> Num(9)) @@ ("guid" :> Object)
               @@ ("guid.rendered" :> Str("https://wp.example/i.png"))
               @@ ("meta" :> Object) @@ ("name" :> Str("my tag"))
               @@ ("description" :> Str("about")))

Failures ==
  { HttpResponse(403, JsonObject([message |-> Str("Sorry, you are not allowed.")])),
    HttpResponse(500, JsonObject(<<>>)),
    HttpResponse(502, NotJson),
    NetworkFailure }

TokenResponses ==
  { HttpResponse(200, JsonObject([token |-> Str("tok")])),
    HttpResponse(200, JsonObject(<<>>)) } \cup Failures

\* {id: 7, title: {rendered: "T"}}
CreatedPost ==
  JsonObject(("id" :> Num(7)) @@ ("title" :> Object) @@ ("title.rendered" :> Str("T")))

OpResponses ==
  { HttpResponse(200, FullObject(t)) : t \in {"T", "Hello"} }
    \cup { HttpResponse(200, CreatedPost), HttpResponse(200, JsonObject(<<>>)),
           HttpResponse(200, JsonObject([id |-> Num(7)])) }
    \cup { HttpResponse(200, JsonArray(l)) : l \in Lists(MaxItems) }
    \cup Failures

PdResponses ==
  { HttpResponse(200, [shape |-> "object",
                       f |-> Members(("success" :> Bool(TRUE)) @@ ("data" :> Object)
                                       @@ ("data.data" :> Arr(<<>>))),
                       items |-> l]) : l \in Lists(MaxItems) }
    \cup { HttpResponse(200, JsonObject([success |-> Bool(TRUE)])),
           HttpResponse(200, JsonObject([success |-> Bool(FALSE), error |-> Str("bad token")])),
           HttpResponse(200, NotJson) }
    \cup Failures

\* the request {...over}, without an action
Fields(over) == [k \in Keys |-> IF k \in DOMAIN over THEN over[k] ELSE Undefined]

FluxRequests ==
  { Fields([prompt |-> pr, number_of_images |-> n, endpoint |-> ep]) :
      pr \in {Undefined, Str(""), Str("a cat")},
      n \in {Undefined} \cup {Num(i) : i \in 0..MaxImages},
      ep \in {Undefined, Str("/v1/flux-dev")} }

FluxSubmitResponses ==
  { HttpResponse(200, JsonObject([id |-> Str("task")])),
    HttpResponse(200, JsonObject(<<>>)) } \cup Failures

\* a status of a task that is neither 'Ready' nor 'Error'
StillRunning == {HttpResponse(200, JsonObject([status |-> Str("Pending")]))}

\* the task is reported 'Ready' or 'Error'
ReadyOrError ==
  { HttpResponse(200, JsonObject(("status" :> Str("Ready")) @@ ("result" :> Object)
                                   @@ ("result.sample" :> Str("https://bfl.example/a.png")))),
    HttpResponse(200, JsonObject([status |-> Str("Ready")])),
    HttpResponse(200, JsonObject([status |-> Str("Error")])) }

FluxPollResponses ==
  StillRunning \cup ReadyOrError \cup {HttpResponse(500, JsonObject(<<>>)), NetworkFailure}

SaveResponses ==
  {HttpResponse(200, JsonObject([filepath |-> Str("/images/img.png")])), NetworkFailure}

(***************************************************************************)
(* The state.  The variables tool .. result describe the invocation whose  *)
(* code the event loop runs; a second invocation of the same instance may  *)
(* stand at an await meanwhile, and other holds it.                        *)
(***************************************************************************)
VARIABLES
  tool,    \* "WordPressTool", "WordPressToolEarlier", "PortdoxTool" or "FluxAPI"
  pc,      \* "idle", the await the invocation stands at, or "done"
  args,    \* the argument of _call (of the constructor, when a tool is constructed)
  data,    \* the validated data
  token,   \* the token getToken returned
  net,     \* the HTTP requests the invocation has sent, in order
  answers, \* the responses the invocation has received, in order
  local,   \* the locals of _call that live across its awaits
  result,  \* what _call ended with
  env,     \* process.env as the constructor read it
  self,    \* the instance: the fields of this
  other    \* the invocation that stands at an await while this one runs

vars == <<tool, pc, args, data, token, net, answers, local, result, env, self, other>>

(***************************************************************************)
(* The steps of the invocations.                                           *)
(***************************************************************************)
\* an invocation that has not started
Idle ==
  [pc |-> "idle", args |-> NoArgs, data |-> NoArgs, token |-> Undefined, net |-> <<>>,
   answers |-> <<>>, local |-> NoLocal, result |-> NoResult]

Init ==
  /\ tool = "none"
  /\ pc = "idle"
  /\ args = NoArgs
  /\ data = NoArgs
  /\ token = Undefined
  /\ net = <<>>
  /\ answers = <<>>
  /\ local = NoLocal
  /\ result = NoResult
  /\ env = NoEnv
  /\ self = NoInstance
  /\ other = Idle

\* a step of an invocation on the instance this: it sends what it sends, waits
\* where it waits or ends with its result, and assigns what it assigns to this
Run(this, step) ==
  /\ pc' = (IF step.next = "throw" THEN "done" ELSE step.next)
  /\ net' = net \o step.send
  /\ local' = step.local
  /\ result' = step.result
  /\ self' = Written(this, step)

\* a step of the invocation under way
Advance(step) == Run(self, step)

\* the instance an invocation starts on: the one in use, or else the one made
InstanceOr(made) == IF tool = "none" THEN made.value ELSE self

\* WordPressTool._call(a) or the earlier revision's, up to its first await
WordPressCallOf(t, a) ==
  LET schema == IF t = "WordPressTool" THEN WpSchema ELSE WpEarlierSchema
  IN  /\ pc = "idle"
      /\ tool \in {"none", t}
      /\ tool' = t
      /\ args' = a
      /\ data' = (IF safeParse(schema, a).success THEN safeParse(schema, a).data
                  ELSE NoArgs)
      /\ Run(InstanceOr(WordPressToolNew(WordPressFields, env)),
             TryCatch(CallStart(schema, a)))
      /\ UNCHANGED <<token, answers, env, other>>

WordPressCall ==
  /\ pc = "idle"
  /\ \E t \in {"WordPressTool", "WordPressToolEarlier"} :
       \E a \in (IF t = "WordPressTool" THEN WpRequests ELSE WpEarlierRequests) :
         WordPressCallOf(t, a)

\* the token exchange is answered: getToken returns and the switch runs
\* GetTokenAnswer with the token kept where every invocation finds it: the
\* token another invocation has got is used instead of the one answered
GetTokenAnswerShared(resp) ==
  LET used == IF other.token.ty = "string"
              THEN HttpResponse(200, JsonObject([token |-> other.token]))
              ELSE resp
  IN  /\ pc = "getToken"
      /\ answers' = Append(answers, resp)
      /\ token' = (IF getToken(used).threw THEN Undefined ELSE getToken(used).value)
      /\ Advance(TryCatch(CallDispatch(tool, data, used)))
      /\ UNCHANGED <<tool, args, data, env, other>>

GetTokenAnswer(resp) ==
  /\ pc = "getToken"
  /\ answers' = Append(answers, resp)
  /\ token' = (IF getToken(resp).threw THEN Undefined ELSE getToken(resp).value)
  /\ Advance(TryCatch(CallDispatch(tool, data, resp)))
  /\ UNCHANGED <<tool, args, data, env, other>>

GetTokenResponse == pc = "getToken" /\ \E resp \in TokenResponses : GetTokenAnswer(resp)

\* PortdoxTool._call(a) up to its first await
PortdoxCall ==
  /\ pc = "idle"
  /\ tool \in {"none", "PortdoxTool"}
  /\ \E a \in PdRequests :
       /\ tool' = "PortdoxTool"
       /\ args' = a
       /\ data' = (IF parse(PdSchema, a).threw THEN NoArgs ELSE parse(PdSchema, a).value)
       /\ Run(InstanceOr(PortdoxToolNew), PortdoxCatch(PortdoxTry(a)))
  /\ UNCHANGED <<token, answers, env, other>>

GetLoadRequestsResponse ==
  /\ pc = "getLoadRequests"
  /\ \E resp \in PdResponses :
       /\ answers' = Append(answers, resp)
       /\ Advance(PortdoxCatch(Finish(getLoadRequests(resp))))
  /\ UNCHANGED <<tool, args, data, token, env, other>>

UpdateContainerResponse ==
  /\ pc = "updateContainer"
  /\ \E resp \in PdResponses :
       /\ answers' = Append(answers, resp)
       /\ Advance(PortdoxCatch(Finish(updateContainer(resp, data))))
  /\ UNCHANGED <<tool, args, data, token, env, other>>

\* FluxAPI._call(a) of a tool constructed with isAgent, up to its first await
FluxCallOf(isAgent, a) ==
  /\ pc = "idle"
  /\ tool \in {"none", "FluxAPI"}
  /\ tool = "FluxAPI" => isAgent = Truthy(self["isAgent"])
  /\ tool' = "FluxAPI"
  /\ args' = a
  /\ data' = a
  /\ Run(InstanceOr(FluxAPINew(FluxFieldsOf(isAgent), env)), FluxStart(isAgent, a))
  /\ UNCHANGED <<token, answers, env, other>>

FluxCall ==
  pc = "idle" /\ \E isAgent \in BOOLEAN : \E a \in FluxRequests : FluxCallOf(isAgent, a)

SubmitResponse ==
  /\ pc = "submit"
  /\ \E resp \in FluxSubmitResponses :
       /\ answers' = Append(answers, resp)
       /\ Advance(FluxSubmitted(local, resp))
  /\ UNCHANGED <<tool, args, data, token, env, other>>

\* setTimeout(resolve, 2000) fires
TimerFires ==
  /\ pc = "wait"
  /\ Advance(FluxPoll(local))
  /\ UNCHANGED <<tool, args, data, token, answers, env, other>>

\* the poll is answered resp; the answer of a poll that is not in net is not
\* kept either
GetResultAnswer(resp) ==
  /\ pc = "poll"
  /\ answers' = (IF Len(answers) < Len(net) THEN Append(answers, resp) ELSE answers)
  /\ Advance(FluxPolled(local, data, resp))
  /\ UNCHANGED <<tool, args, data, token, env, other>>

GetResultResponse == \E resp \in FluxPollResponses : GetResultAnswer(resp)

ProcessFileURLResponse ==
  /\ pc = "save"
  /\ \E resp \in SaveResponses :
       /\ answers' = Append(answers, resp)
       /\ Advance(FluxSaved(local, data, resp))
  /\ UNCHANGED <<tool, args, data, token, env, other>>

\* the callers have their results; the next invocation starts from nothing
Done ==
  /\ pc = "done"
  /\ other.pc \in {"idle", "done"}
  /\ tool' = "none"
  /\ pc' = "idle"
  /\ args' = NoArgs
  /\ data' = NoArgs
  /\ token' = Undefined
  /\ net' = <<>>
  /\ answers' = <<>>
  /\ local' = NoLocal
  /\ result' = NoResult
  /\ env' = NoEnv
  /\ self' = NoInstance
  /\ other' = Idle

(***************************************************************************)
(* The answers to the requests of the WordPress handlers.  Each action is  *)
(* the rest of the handler's case block, inside the try of _call.  The     *)
(* cases listPosts and deletePost have no action: the schema admits        *)
(* neither name, so no invocation waits in them.                           *)
(***************************************************************************)
CreatePostResponse ==
  /\ pc = "createPost"
  /\ \E resp \in OpResponses :
       /\ answers' = Append(answers, resp)
       /\ Advance(TryCatch(ResumeCreatePost(data, resp)))
  /\ UNCHANGED <<tool, args, data, token, env, other>>

EditPostResponse ==
  /\ pc = "editPost"
  /\ \E resp \in OpResponses :
       /\ answers' = Append(answers, resp)
       /\ Advance(TryCatch(ResumeEditPost(data, resp)))
  /\ UNCHANGED <<tool, args, data, token, env, other>>

EditPostEarlierResponse ==
  /\ pc = "editPostEarlier"
  /\ \E resp \in OpResponses :
       /\ answers' = Append(answers, resp)
       /\ Advance(TryCatch(ResumeEditPostEarlier(resp)))
  /\ UNCHANGED <<tool, args, data, token, env, other>>

GetTagIdByNameResponse ==
  /\ pc = "getTagIdByName"
  /\ \E resp \in OpResponses :
       /\ answers' = Append(answers, resp)
       /\ Advance(TryCatch(ResumeSearchPostsTag(data, token, local, resp)))
  /\ UNCHANGED <<tool, args, data, token, env, other>>

GetCategoryIdByNameResponse ==
  /\ pc = "getCategoryIdByName"
  /\ \E resp \in OpResponses :
       /\ answers' = Append(answers, resp)
       /\ Advance(TryCatch(ResumeSearchPostsCategory(data, token, local, resp)))
  /\ UNCHANGED <<tool, args, data, token, env, other>>

SearchPostsResponse ==
  /\ pc = "searchPosts"
  /\ \E resp \in OpResponses :
       /\ answers' = Append(answers, resp)
       /\ Advance(TryCatch(ResumeSearchPosts(resp)))
  /\ UNCHANGED <<tool, args, data, token, env, other>>

ListCategoriesResponse ==
  /\ pc = "listCategories"
  /\ \E resp \in OpResponses :
       /\ answers' = Append(answers, resp)
       /\ Advance(TryCatch(ResumeListCategories(resp)))
  /\ UNCHANGED <<tool, args, data, token, env, other>>

ListTagsResponse ==
  /\ pc = "listTags"
  /\ \E resp \in OpResponses :
       /\ answers' = Append(answers, resp)
       /\ Advance(TryCatch(ResumeListTags(resp)))
  /\ UNCHANGED <<tool, args, data, token, env, other>>

SearchByMetaResponse ==
  /\ pc = "searchByMeta"
  /\ \E resp \in OpResponses :
       /\ answers' = Append(answers, resp)
       /\ Advance(TryCatch(ResumeSearchByMeta(resp)))
  /\ UNCHANGED <<tool, args, data, token, env, other>>

UpdatePostMetaResponse ==
  /\ pc = "updatePostMeta"
  /\ \E resp \in OpResponses :
       /\ answers' = Append(answers, resp)
       /\ Advance(TryCatch(ResumeUpdatePostMeta(resp)))
  /\ UNCHANGED <<tool, args, data, token, env, other>>

GetPostMetaResponse ==
  /\ pc = "getPostMeta"
  /\ \E resp \in OpResponses :
       /\ answers' = Append(answers, resp)
       /\ Advance(TryCatch(ResumeGetPostMeta(data, resp)))
  /\ UNCHANGED <<tool, args, data, token, env, other>>

DeletePostMetaResponse ==
  /\ pc = "deletePostMeta"
  /\ \E resp \in OpResponses :
       /\ answers' = Append(answers, resp)
       /\ Advance(TryCatch(ResumeDeletePostMeta(resp)))
  /\ UNCHANGED <<tool, args, data, token, env, other>>

UpdateCategoryResponse ==
  /\ pc = "updateCategory"
  /\ \E resp \in OpResponses :
       /\ answers' = Append(answers, resp)
       /\ Advance(TryCatch(ResumeUpdateCategory(resp)))
  /\ UNCHANGED <<tool, args, data, token, env, other>>

UpdateTagResponse ==
  /\ pc = "updateTag"
  /\ \E resp \in OpResponses :
       /\ answers' = Append(answers, resp)
       /\ Advance(TryCatch(ResumeUpdateTag(resp)))
  /\ UNCHANGED <<tool, args, data, token, env, other>>

AddCategoryResponse ==
  /\ pc = "addCategory"
  /\ \E resp \in OpResponses :
       /\ answers' = Append(answers, resp)
       /\ Advance(TryCatch(ResumeAddCategory(resp)))
  /\ UNCHANGED <<tool, args, data, token, env, other>>

AddTagResponse ==
  /\ pc = "addTag"
  /\ \E resp \in OpResponses :
       /\ answers' = Append(answers, resp)
       /\ Advance(TryCatch(ResumeAddTag(resp)))
  /\ UNCHANGED <<tool, args, data, token, env, other>>

DeleteCategoryResponse ==
  /\ pc = "deleteCategory"
  /\ \E resp \in OpResponses :
       /\ answers' = Append(answers, resp)
       /\ Advance(TryCatch(ResumeDeleteCategory(resp)))
  /\ UNCHANGED <<tool, args, data, token, env, other>>

DeleteTagResponse ==
  /\ pc = "deleteTag"
  /\ \E resp \in OpResponses :
       /\ answers' = Append(answers, resp)
       /\ Advance(TryCatch(ResumeDeleteTag(resp)))
  /\ UNCHANGED <<tool, args, data, token, env, other>>

ListPaginatedPostsResponse ==
  /\ pc = "listPaginatedPosts"
  /\ \E resp \in OpResponses :
       /\ answers' = Append(answers, resp)
       /\ Advance(TryCatch(ResumeListPaginatedPosts(resp)))
  /\ UNCHANGED <<tool, args, data, token, env, other>>

GetPostContentByIdResponse ==
  /\ pc = "getPostContentById"
  /\ \E resp \in OpResponses :
       /\ answers' = Append(answers, resp)
       /\ Advance(TryCatch(ResumeGetPostContentById(data, resp)))
  /\ UNCHANGED <<tool, args, data, token, env, other>>

GetFeaturedImagePostResponse ==
  /\ pc = "getFeaturedImage"
  /\ \E resp \in OpResponses :
       /\ answers' = Append(answers, resp)
       /\ Advance(TryCatch(ResumeGetFeaturedImagePost(data, token, resp)))
  /\ UNCHANGED <<tool, args, data, token, env, other>>

GetFeaturedImageMediaResponse ==
  /\ pc = "getFeaturedImageMedia"
  /\ \E resp \in OpResponses :
       /\ answers' = Append(answers, resp)
       /\ Advance(TryCatch(ResumeGetFeaturedImage(data, resp)))
  /\ UNCHANGED <<tool, args, data, token, env, other>>

ListPaginatedCategoriesResponse ==
  /\ pc = "listPaginatedCategories"
  /\ \E resp \in OpResponses :
       /\ answers' = Append(answers, resp)
       /\ Advance(TryCatch(ResumeListPaginatedCategories(resp)))
  /\ UNCHANGED <<tool, args, data, token, env, other>>

ListPaginatedTagsResponse ==
  /\ pc = "listPaginatedTags"
  /\ \E resp \in OpResponses :
       /\ answers' = Append(answers, resp)
       /\ Advance(TryCatch(ResumeListPaginatedTags(resp)))
  /\ UNCHANGED <<tool, args, data, token, env, other>>

(***************************************************************************)
(* Construction of the tools, for what the constructors accept.  Every     *)
(* credential is absent, empty or present in the fields and in the         *)
(* environment.                                                            *)
(***************************************************************************)
Credential(v) == {Undefined, Str(""), Str(v)}
WordPressCredentials ==
  {[NoEnv EXCEPT !["WORDPRESS_BASE_URL"] = b, !["WORDPRESS_USERNAME"] = u,
                 !["WORDPRESS_PASSWORD"] = p] :
     b \in Credential(BaseUrl), u \in Credential(Username), p \in Credential(Password)}
FluxCredentials == {[NoEnv EXCEPT !["FLUX_API_KEY"] = k] : k \in Credential(FluxApiKey)}
FluxOptions ==
  {[override |-> o, isAgent |-> i] :
     o \in {Undefined, Bool(FALSE), Bool(TRUE)}, i \in {Undefined, Bool(TRUE)}}

\* the instance a constructor left
Constructed == [how |-> "return", form |-> "instance", text |-> "", val |-> <<>>]

\* the constructor ended: by throwing, or with the instance in self
New(class, fields, environment, made) ==
  /\ pc = "idle"
  /\ tool' = class
  /\ pc' = "done"
  /\ args' = fields
  /\ env' = environment
  /\ self' = (IF made.threw THEN NoInstance ELSE made.value)
  /\ result' = (IF made.threw THEN Thrown(made.message) ELSE Constructed)
  /\ UNCHANGED <<data, token, net, answers, local, other>>

NewWordPressTool ==
  \E c \in WordPressCredentials : \E e \in WordPressCredentials :
    LET fields == [k \in FieldKeys |-> IF k \in CredentialKeys THEN c[k] ELSE Undefined]
    IN  New("WordPressTool", fields, e, WordPressToolNew(fields, e))

NewPortdoxTool == New("PortdoxTool", NoFields, NoEnv, PortdoxToolNew)

NewFluxAPI ==
  \E c \in FluxCredentials : \E e \in FluxCredentials : \E o \in FluxOptions :
    LET fields == [k \in FieldKeys |->
                     IF k \in CredentialKeys THEN c[k] ELSE o[k]]
    IN  New("FluxAPI", fields, e, FluxAPINew(fields, e))

Next ==
  \/ WordPressCall
  \/ GetTokenResponse
  \/ CreatePostResponse
  \/ EditPostResponse
  \/ EditPostEarlierResponse
  \/ GetTagIdByNameResponse
  \/ GetCategoryIdByNameResponse
  \/ SearchPostsResponse
  \/ ListCategoriesResponse
  \/ ListTagsResponse
  \/ SearchByMetaResponse
  \/ UpdatePostMetaResponse
  \/ GetPostMetaResponse
  \/ DeletePostMetaResponse
  \/ UpdateCategoryResponse
  \/ UpdateTagResponse
  \/ AddCategoryResponse
  \/ AddTagResponse
  \/ DeleteCategoryResponse
  \/ DeleteTagResponse
  \/ ListPaginatedPostsResponse
  \/ GetPostContentByIdResponse
  \/ GetFeaturedImagePostResponse
  \/ GetFeaturedImageMediaResponse
  \/ ListPaginatedCategoriesResponse
  \/ ListPaginatedTagsResponse
  \/ PortdoxCall
  \/ GetLoadRequestsResponse
  \/ UpdateContainerResponse
  \/ FluxCall
  \/ SubmitResponse
  \/ TimerFires
  \/ GetResultResponse
  \/ ProcessFileURLResponse
  \/ Done

Spec == Init /\ [][Next]_vars

ConstructNext ==
  \/ NewWordPressTool
  \/ NewPortdoxTool
  \/ NewFluxAPI
  \/ Done

Construct == Init /\ [][ConstructNext]_vars

(***************************************************************************)
(* Two invocations of one instance.  JavaScript runs the code between two  *)
(* awaits without interruption, so the invocations interleave step by      *)
(* step: while one stands at an await the event loop may run the other.    *)
(* The token exchanges are answered with two different tokens.             *)
(***************************************************************************)
Running ==
  [pc |-> pc, args |-> args, data |-> data, token |-> token, net |-> net,
   answers |-> answers, local |-> local, result |-> result]

\* the event loop turns to the other invocation
RunOther ==
  /\ tool \in {"WordPressTool", "FluxAPI"}
  /\ other' = Running
  /\ pc' = other.pc
  /\ args' = other.args
  /\ data' = other.data
  /\ token' = other.token
  /\ net' = other.net
  /\ answers' = other.answers
  /\ local' = other.local
  /\ result' = other.result
  /\ UNCHANGED <<tool, env, self>>

ConcurrentWpRequests ==
  { Req("createPost", [title |-> Str("T"), content |-> Str("C")]),
    Req("getFeaturedImage", [postId |-> Num(1)]) }
ConcurrentTokenResponses ==
  { HttpResponse(200, JsonObject([token |-> Str(t)])) : t \in {"tok", "tok2"} }
    \cup {NetworkFailure}
ConcurrentFluxRequests == {Fields([prompt |-> Str("a cat")])}

ConcurrentWordPressCall ==
  pc = "idle" /\ \E a \in ConcurrentWpRequests : WordPressCallOf("WordPressTool", a)
ConcurrentGetTokenResponse ==
  pc = "getToken" /\ \E resp \in ConcurrentTokenResponses : GetTokenAnswer(resp)
ConcurrentFluxCall ==
  pc = "idle" /\ \E isAgent \in BOOLEAN : \E a \in ConcurrentFluxRequests :
                   FluxCallOf(isAgent, a)

ConcurrentNext ==
  \/ ConcurrentWordPressCall
  \/ ConcurrentGetTokenResponse
  \/ CreatePostResponse
  \/ GetFeaturedImagePostResponse
  \/ GetFeaturedImageMediaResponse
  \/ ConcurrentFluxCall
  \/ SubmitResponse
  \/ TimerFires
  \/ GetResultResponse
  \/ ProcessFileURLResponse
  \/ RunOther
  \/ Done

Concurrent == Init /\ [][ConcurrentNext]_vars

(***************************************************************************)
(* An invocation run alone: _call(a) on the instance as constructed, its   *)
(* requests answered by the responses `rest`, in order.                    *)
(***************************************************************************)
\* the code that runs when the await at `label` is answered by resp
Resume(t, label, l, d, tok, resp) ==
  CASE label = "getToken" -> TryCatch(CallDispatch(t, d, resp))
    [] label = "createPost" -> TryCatch(ResumeCreatePost(d, resp))
    [] label = "getFeaturedImage" -> TryCatch(ResumeGetFeaturedImagePost(d, tok, resp))
    [] label = "getFeaturedImageMedia" -> TryCatch(ResumeGetFeaturedImage(d, resp))
    [] label = "submit" -> FluxSubmitted(l, resp)
    [] label = "poll" -> FluxPolled(l, d, resp)
    [] label = "save" -> FluxSaved(l, d, resp)

RECURSIVE Alone(_, _, _, _, _, _)
Alone(t, d, step, tok, sent, rest) ==
  IF step.next \in {"done", "throw"}
  THEN [result |-> step.result, net |-> sent \o step.send]
  ELSE IF step.next = "wait"
  THEN Alone(t, d, FluxPoll(step.local), tok, sent \o step.send, rest)
  ELSE IF rest = <<>>
  THEN [result |-> NoResult, net |-> sent \o step.send]
  ELSE LET resp == Head(rest)
           got == IF step.next # "getToken" THEN tok
                  ELSE IF getToken(resp).threw THEN Undefined ELSE getToken(resp).value
       IN  Alone(t, d, Resume(t, step.next, step.local, d, got, resp), got,
                 sent \o step.send, Tail(rest))

\* what _call(a) sends and returns when it runs alone on a tool of class t
RunAlone(t, isAgent, a, rest) ==
  IF t = "FluxAPI" THEN Alone(t, a, FluxStart(isAgent, a), Undefined, <<>>, rest)
  ELSE Alone(t, safeParse(WpSchema, a).data, TryCatch(CallStart(WpSchema, a)),
             Undefined, <<>>, rest)

(***************************************************************************)
(* searchPosts called as a method, the way the test suite calls it: with   *)
(* the token of an earlier getToken and positional arguments.  What the    *)
(* method throws reaches the caller: there is no try around it.            *)
(***************************************************************************)
\* a value a method returned, not turned into a string
Value(v) == [how |-> "return", form |-> "value", text |-> "", val |-> v]

\* wpTool.searchPosts(token, searchType, searchValue, tagId, tagName,
\*                    categoryId, categoryName, type)
SearchPostsMethodCall ==
  /\ pc = "idle"
  /\ tool = "none"
  /\ \E sty \in {Undefined, Str("contains"), Str("starts_with"), Str("ends_with"), Str("Test")},
        sv \in {Undefined, Str("Test")}, tid \in Ids, tn \in Names, cid \in Ids,
        cn \in {Undefined, Str("tech")}, ty \in Types :
       LET a == Fields([searchType |-> sty, searchValue |-> sv, tagId |-> tid,
                        tagName |-> tn, categoryId |-> cid, categoryName |-> cn,
                        type |-> ty])
       IN  /\ tool' = "WordPressTool"
           /\ args' = a
           /\ data' = a
           /\ token' = Str("tok")
           /\ Run(InstanceOr(WordPressToolNew(WordPressFields, env)),
                  searchPostsStart(Str("tok"), sty, sv, tid, tn, cid, cn, ty))
  /\ UNCHANGED <<answers, env, other>>

TagLookupAnswered ==
  /\ pc = "getTagIdByName"
  /\ \E resp \in OpResponses :
       /\ answers' = Append(answers, resp)
       /\ Advance(searchPostsAfterTag(resp, token, data["searchType"], data["searchValue"],
                                      data["tagName"], local.categoryId,
                                      data["categoryName"], data["type"]))
  /\ UNCHANGED <<tool, args, data, token, env, other>>

CategoryLookupAnswered ==
  /\ pc = "getCategoryIdByName"
  /\ \E resp \in OpResponses :
       /\ answers' = Append(answers, resp)
       /\ Advance(searchPostsAfterCategory(resp, token, data["searchType"],
                                           data["searchValue"], local.tagId,
                                           data["categoryName"], data["type"]))
  /\ UNCHANGED <<tool, args, data, token, env, other>>

PostsQueryAnswered ==
  /\ pc = "searchPosts"
  /\ \E resp \in OpResponses :
       /\ answers' = Append(answers, resp)
       /\ Advance(IF searchPosts(resp).threw THEN Rethrow(searchPosts(resp))
                  ELSE Finish(Value(searchPosts(resp).value)))
  /\ UNCHANGED <<tool, args, data, token, env, other>>

MethodNext ==
  \/ SearchPostsMethodCall
  \/ TagLookupAnswered
  \/ CategoryLookupAnswered
  \/ PostsQueryAnswered
  \/ Done

Methods == Init /\ [][MethodNext]_vars

(***************************************************************************)
(* FluxAPI alone, for what its invocations eventually do.  The event loop  *)
(* runs a callback that is ready and every request is answered or fails:   *)
(* each step that is possible is eventually taken.                         *)
(***************************************************************************)
FluxNext ==
  \/ FluxCall
  \/ SubmitResponse
  \/ TimerFires
  \/ GetResultResponse
  \/ ProcessFileURLResponse
  \/ Done

FluxFair == Init /\ [][FluxNext]_vars /\ WF_vars(FluxNext)

\* the remote reports 'Ready' or 'Error' for the task polled
ReportsReadyOrError == \E resp \in ReadyOrError : GetResultAnswer(resp)

\* the remote eventually reports 'Ready' or 'Error' for a task that is polled
\* again and again
FluxLive == FluxFair /\ SF_vars(ReportsReadyOrError)

(***************************************************************************)
(* The properties.                                                         *)
(***************************************************************************)
WordPressTools == {"WordPressTool", "WordPressToolEarlier"}
SchemaOf(t) ==
  CASE t = "WordPressTool" -> WpSchema
    [] t = "WordPressToolEarlier" -> WpEarlierSchema
    [] OTHER -> PdSchema

StartsWith(str, prefix) ==
  Len(str) >= Len(prefix) /\ SubSeq(str, 1, Len(prefix)) = prefix

\* the request passes the schema of the tool it is given to
SchemaValid == tool # "none" /\ Issues(SchemaOf(tool), args) = <<>>
Supplied(k) == args[k].ty # "undefined"

IsTokenExchange(req) == req.url = WpJson \o "/jwt-auth/v1/token"
IsTagLookup(req) == StartsWith(req.url, WpJson \o "/wp/v2/tags?search=")
IsCategoryLookup(req) == StartsWith(req.url, WpJson \o "/wp/v2/categories?search=")
IsPostsQuery(req) ==
  req.method = "GET"
    /\ (StartsWith(req.url, WpJson \o "/wp/v2/posts?")
          \/ StartsWith(req.url, WpJson \o "/wp/v2/pages?"))

\* the remote answered, with a status outside 200..299
NonSuccess(ans) == ans.net = "answered" /\ ~ Ok(ans)
\* no answer, or a status outside 200..299
Failed(ans) == ans.net = "failed" \/ ~ Ok(ans)

ErrorOf(r) == r.val["error"].s
\* an error result: the envelope {error: ...}, or a text that names an error
IsErrorResult(r) ==
  IsErrorEnvelope(r) \/ (r.how = "return" /\ r.form = "text" /\ Contains(r.text, "Error"))

\* C1: a request that fails the schema of the tool ends the invocation with an
\* error string and no HTTP request at all is sent in it.
C1_SchemaFailureSendsNothing ==
  (tool \in WordPressTools \cup {"PortdoxTool"} /\ ~ SchemaValid) =>
    /\ pc = "done"
    /\ net = <<>>
    /\ result.how = "return"
    /\ result.form = "text"
    /\ (StartsWith(result.text, "Validation Error: ")
          \/ StartsWith(result.text, "Plugin Error: "))

\* a createPost request whose title is a number has been refused
C1_Witness ==
  /\ tool = "WordPressTool"
  /\ args = Req("createPost", [title |-> Num(7), content |-> Str("C")])
  /\ pc = "done"
  /\ net = <<>>
  /\ result = Text("Validation Error: [title]")

\* C2: createPost with neither title nor content returns the envelope
\* {error: 'Title and content are required ...'} and sends no request, not
\* even the token exchange.
C2_MissingTitleAndContentSendsNothing ==
  (tool = "WordPressTool" /\ SchemaValid /\ args["action"] = Str("createPost")
     /\ ~ Supplied("title") /\ ~ Supplied("content")) =>
    /\ net = <<>>
    /\ pc = "done" =>
         result = ErrorEnvelope("Title and content are required for creating a post or page.")

\* C3: no invocation ends by throwing; a failed validation, a failed token
\* exchange, a failed request, a success flag that is false and a success
\* answer without the expected title all end in a returned error result.
C3_NothingThrown ==
  tool \in WordPressTools \cup {"PortdoxTool"} =>
  /\ result.how # "throw"
  /\ pc = "done" =>
       /\ result.how = "return"
       /\ ~ SchemaValid => IsErrorResult(result)
       /\ (\E i \in 1..Len(answers) : Failed(answers[i])) => IsErrorResult(result)
       /\ (tool = "PortdoxTool" /\ Len(answers) = 1 /\ ~ Failed(answers[1])
             /\ ~ Truthy(answers[1].body.f["success"])) => IsErrorResult(result)
       /\ (tool \in WordPressTools /\ data["action"] = Str("createPost")
             /\ Len(answers) = 2 /\ ~ Failed(answers[2])
             /\ answers[2].body.f["title"] = Undefined) => IsErrorEnvelope(result)

\* createPost was answered 200 with {id: 7}: reading title.rendered threw, and
\* _call returned the envelope of that TypeError
C3_Witness ==
  /\ tool = "WordPressTool"
  /\ pc = "done"
  /\ data["action"] = Str("createPost")
  /\ Len(answers) = 2
  /\ answers[2] = HttpResponse(200, JsonObject([id |-> Num(7)]))
  /\ result = ErrorEnvelope(ReadOfUndefined("rendered"))

\* C4: when the token exchange is answered with a non-success status, the
\* invocation returns an envelope whose error is 'Authentication failed: ...'
\* and sends no request after the exchange.
C4_TokenFailureIsAuthenticationError ==
  (tool = "WordPressTool" /\ Len(answers) >= 1 /\ NonSuccess(answers[1])) =>
    /\ pc = "done"
    /\ Len(net) = 1
    /\ IsErrorEnvelope(result)
    /\ StartsWith(ErrorOf(result), "Authentication failed: ")

\* C5: when an operation request is answered with a non-success status, the
\* returned envelope's error carries the remote status and the remote message.
C5_ErrorCarriesStatusAndMessage ==
  (tool = "WordPressTool" /\ pc = "done" /\ Len(answers) >= 2
     /\ NonSuccess(answers[Len(answers)])) =>
    /\ IsErrorEnvelope(result)
    /\ Contains(ErrorOf(result), ToString(answers[Len(answers)].status))
    /\ Contains(ErrorOf(result), Interp(answers[Len(answers)].body.f["message"]))

\* the five fields editPost may send
EditableFields == {"title", "content", "status", "tags", "categories"}
SuppliedEdits == [k \in {x \in EditableFields : Supplied(x)} |-> args[k]]

\* C6: the body of the edit request holds exactly the fields among title,
\* content, status, tags and categories that the request supplied, the post
\* id is in the URL, and with none of them supplied the call ends in an error
\* with no edit request sent.
C6_EditSendsExactlyTheSuppliedFields ==
  (tool = "WordPressTool" /\ SchemaValid /\ args["action"] = Str("editPost")) =>
    /\ Len(net) <= 2
    /\ Len(net) = 2 =>
         /\ net[2].method = "POST"
         /\ net[2].url = WpJson \o "/wp/v2/posts/" \o ToString(args["postId"].n)
         /\ net[2].body = SuppliedEdits
    /\ DOMAIN SuppliedEdits = {} =>
         /\ Len(net) <= 1
         /\ pc = "done" => IsErrorEnvelope(result)

\* only status was supplied: the edit request of post 1 carries exactly {status}
C6_Witness ==
  /\ tool = "WordPressTool"
  /\ args = Req("editPost", [postId |-> Num(1), status |-> Str("publish")])
  /\ Len(net) = 2
  /\ net[2].url = WpJson \o "/wp/v2/posts/1"
  /\ net[2].body = [status |-> Str("publish")]

\* the i-th request was a name lookup, answered 200 with an empty list
LookupWithoutMatch(i) ==
  /\ IsTagLookup(net[i]) \/ IsCategoryLookup(net[i])
  /\ ~ Failed(answers[i])
  /\ answers[i].body.shape = "array"
  /\ answers[i].body.items = <<>>

\* the id the i-th answer gave to the lookup
LookedUp(i) == answers[i].body.items[1]["id"]

\* C7: in searchPosts, a name lookup that finds no match ends the action with
\* an error, returned by _call as an envelope, and a posts query is only ever
\* sent with the id of the first match as its filter, never null or none.
C7_LookupWithoutMatchIsAnError ==
  tool \in WordPressTools =>
    /\ \A i \in 1..Len(answers) :
         LookupWithoutMatch(i) =>
           /\ pc = "done"
           /\ Len(net) = i
           /\ IsErrorEnvelope(result)
           /\ (StartsWith(ErrorOf(result), "No tag found with name")
                 \/ StartsWith(ErrorOf(result), "No category found with name"))
    /\ \A j \in 1..Len(net) : \A i \in 1..(j - 1) :
         IsPostsQuery(net[j]) =>
           /\ IsTagLookup(net[i]) =>
                /\ answers[i].body.shape = "array" /\ answers[i].body.items # <<>>
                /\ Truthy(LookedUp(i))
                /\ Contains(net[j].url, "&tags=" \o Interp(LookedUp(i)))
           /\ IsCategoryLookup(net[i]) =>
                /\ answers[i].body.shape = "array" /\ answers[i].body.items # <<>>
                /\ Truthy(LookedUp(i))
                /\ Contains(net[j].url, "categories=" \o Interp(LookedUp(i)))

\* the tag lookup of a searchPosts call found nothing: _call returned the error
C7_Witness ==
  /\ tool = "WordPressToolEarlier"
  /\ pc = "done"
  /\ Len(net) = 2
  /\ IsTagLookup(net[2])
  /\ answers[2] = HttpResponse(200, JsonArray(<<>>))
  /\ result = ErrorEnvelope("No tag found with name \"my tag\".")

\* C8: a searchPosts request that supplies tagName (categoryName) has its
\* posts query preceded by the name lookup and filtered by the id found.
C8_NameIsLookedUpBeforeThePostsQuery ==
  (tool = "WordPressTool" /\ SchemaValid /\ args["action"] = Str("searchPosts")) =>
    \A j \in 1..Len(net) :
      IsPostsQuery(net[j]) =>
        /\ Truthy(args["tagName"]) =>
             \E i \in 1..(j - 1) :
               /\ IsTagLookup(net[i])
               /\ Contains(net[j].url, "&tags=" \o Interp(LookedUp(i)))
        /\ Truthy(args["categoryName"]) =>
             \E i \in 1..(j - 1) :
               /\ IsCategoryLookup(net[i])
               /\ Contains(net[j].url, "categories=" \o Interp(LookedUp(i)))

PaginatedActions == {"listPaginatedPosts", "listPaginatedCategories", "listPaginatedTags"}
Collection(action) ==
  CASE action = "listPaginatedPosts" -> "posts"
    [] action = "listPaginatedCategories" -> "categories"
    [] action = "listPaginatedTags" -> "tags"

\* C9: the paginated lists ask for page=1 and per_page=20 when page and
\* perPage are omitted, and for exactly the supplied numbers otherwise.
C9_PaginationDefaultsAndPassThrough ==
  (tool = "WordPressTool" /\ SchemaValid /\ args["action"].s \in PaginatedActions
     /\ Len(net) >= 2) =>
    /\ Len(net) = 2
    /\ net[2].method = "GET"
    /\ net[2].url =
         WpJson \o "/wp/v2/" \o Collection(args["action"].s)
           \o "?page=" \o (IF Supplied("page") THEN ToString(args["page"].n) ELSE "1")
           \o "&per_page="
           \o (IF Supplied("perPage") THEN ToString(args["perPage"].n) ELSE "20")

\* {action: 'listPaginatedPosts'} asked for page 1 with 20 items
C9_Witness ==
  /\ tool = "WordPressTool"
  /\ args = Req("listPaginatedPosts", <<>>)
  /\ Len(net) = 2
  /\ net[2].url = WpJson \o "/wp/v2/posts?page=1&per_page=20"

\* C10: {action: 'createPost', title: 'T', content: 'C'} sends the body
\* {title:'T', content:'C', status:'draft', tags:[], categories:[], date:null}
\* and, answered {id:7, title:{rendered:'T'}}, returns
\* {message:'post created successfully', id:7, title:'T'}.
C10_CreatePostScenario ==
  (tool = "WordPressTool"
     /\ args = Req("createPost", [title |-> Str("T"), content |-> Str("C")])) =>
    /\ Len(net) >= 2 =>
         net[2].body = [title |-> Str("T"), content |-> Str("C"), status |-> Str("draft"),
                        tags |-> Arr(<<>>), categories |-> Arr(<<>>), date |-> Null]
    /\ (pc = "done" /\ Len(answers) = 2 /\ answers[2] = HttpResponse(200, CreatedPost)) =>
         result = Stringify([message |-> Str("post created successfully"),
                             id |-> Num(7), title |-> Str("T")])

\* the create request of a createPost call was answered 2xx with a post: an
\* object that has a title
CreateSucceeded ==
  /\ tool = "WordPressTool"
  /\ SchemaValid
  /\ args["action"] = Str("createPost")
  /\ Truthy(args["title"]) /\ Truthy(args["content"])
  /\ Len(answers) = 2
  /\ ~ Failed(answers[1]) /\ ~ Failed(answers[2])
  /\ answers[2].body.shape = "object"
  /\ answers[2].body.f["title"] = Object

\* C11: a createPost call with title and content whose token exchange and
\* create request both succeed returns a JSON object whose id is the id the
\* remote answered and whose title is the remote's rendered title.
C11_CreateReturnsRemoteIdAndTitle ==
  CreateSucceeded =>
    /\ pc = "done"
    /\ result.how = "return"
    /\ result.form = "object"
    /\ "title" \in DOMAIN result.val
    /\ result.val["title"] = answers[2].body.f["title.rendered"]
    /\ "id" \in DOMAIN result.val
    /\ result.val["id"] = answers[2].body.f["id"]

\* a page titled "T" was created and the remote rendered its title "Hello"
C11_Witness ==
  /\ CreateSucceeded
  /\ args["type"] = Str("page")
  /\ args["title"] = Str("T")
  /\ answers[2] = HttpResponse(200, FullObject("Hello"))
  /\ result.val["title"] = Str("Hello")
  /\ result.val["id"] = Num(7)

\* C12: a request to WordPressTool._call that carries a field the schema does
\* not declare, or a declared field of the wrong type, is rejected before any
\* request is sent.
C12_UndeclaredOrMistypedFieldIsRejected ==
  (tool = "WordPressTool"
     /\ ((\E k \in Keys \ Declared(WpSchema) : Supplied(k)) \/ ~ SchemaValid)) =>
    /\ pc = "done"
    /\ net = <<>>
    /\ IsErrorResult(result)

\* what the handler of an action may send: the method, the start of the URL
\* after /wp-json, and a mark the URL contains
Endpoint(method, prefix, mark) == [method |-> method, prefix |-> prefix, mark |-> mark]
Endpoints(action) ==
  CASE action = "createPost" ->
         {Endpoint("POST", "/wp/v2/posts", ""), Endpoint("POST", "/wp/v2/pages", "")}
    [] action = "editPost" -> {Endpoint("POST", "/wp/v2/posts/", "")}
    [] action = "searchPosts" ->
         {Endpoint("GET", "/wp/v2/posts?", "status=any"),
          Endpoint("GET", "/wp/v2/pages?", "status=any"),
          Endpoint("GET", "/wp/v2/tags?search=", ""),
          Endpoint("GET", "/wp/v2/categories?search=", "")}
    [] action = "searchByMeta" ->
         {Endpoint("GET", "/wp/v2/posts?meta_key=", "&meta_value="),
          Endpoint("GET", "/wp/v2/pages?meta_key=", "&meta_value=")}
    [] action = "updatePostMeta" -> {Endpoint("POST", "/custom/v1/update-meta/", "")}
    [] action = "getPostMeta" -> {Endpoint("GET", "/wp/v2/posts/", "")}
    [] action = "deletePostMeta" -> {Endpoint("POST", "/custom/v1/delete-meta/", "")}
    [] action = "listCategories" -> {Endpoint("GET", "/wp/v2/categories", "")}
    [] action = "listTags" -> {Endpoint("GET", "/wp/v2/tags", "")}
    [] action = "updateCategory" -> {Endpoint("POST", "/custom/v1/update-category/", "")}
    [] action = "updateTag" -> {Endpoint("POST", "/custom/v1/update-tag/", "")}
    [] action = "addCategory" -> {Endpoint("POST", "/custom/v1/add-category/", "")}
    [] action = "addTag" -> {Endpoint("POST", "/custom/v1/add-tag/", "")}
    [] action = "deleteCategory" -> {Endpoint("POST", "/custom/v1/delete-category/", "")}
    [] action = "deleteTag" -> {Endpoint("POST", "/custom/v1/delete-tag/", "")}
    [] action = "listPaginatedPosts" -> {Endpoint("GET", "/wp/v2/posts?page=", "&per_page=")}
    [] action = "listPaginatedCategories" ->
         {Endpoint("GET", "/wp/v2/categories?page=", "&per_page=")}
    [] action = "listPaginatedTags" -> {Endpoint("GET", "/wp/v2/tags?page=", "&per_page=")}
    [] action = "getPostContentById" -> {Endpoint("GET", "/wp/v2/posts/", "")}
    [] action = "getFeaturedImage" ->
         {Endpoint("GET", "/wp/v2/posts/", ""), Endpoint("GET", "/wp/v2/media/", "")}
    [] OTHER -> {}

\* the awaits of the handler of an action, as values of pc
Awaits(action) ==
  CASE action = "searchPosts" -> {"searchPosts", "getTagIdByName", "getCategoryIdByName"}
    [] action = "getFeaturedImage" -> {"getFeaturedImage", "getFeaturedImageMedia"}
    [] OTHER -> {action}

SentBy(action, req) ==
  \E e \in Endpoints(action) :
    /\ req.method = e.method
    /\ StartsWith(req.url, WpJson \o e.prefix)
    /\ Contains(req.url, e.mark)

\* C13: for every action of the schema's enum exactly one handler runs: every
\* request after the token exchange is one of that action's handler, _call
\* waits only in that handler, and 'Unsupported action' is never the result.
C13_ExactlyOneHandlerRuns ==
  (tool = "WordPressTool" /\ SchemaValid) =>
    /\ args["action"].s \in WpActions
    /\ pc \in {"getToken", "done"} \cup Awaits(args["action"].s)
    /\ \A i \in 2..Len(net) : SentBy(args["action"].s, net[i])
    /\ ~ (IsErrorEnvelope(result) /\ StartsWith(ErrorOf(result), "Unsupported action"))

\* addTag has sent its one request, to the add-tag endpoint
C13_Witness ==
  /\ tool = "WordPressTool"
  /\ args["action"] = Str("addTag")
  /\ pc = "done"
  /\ Len(net) = 2
  /\ net[2].url = WpJson \o "/custom/v1/add-tag/"
  /\ ~ IsErrorEnvelope(result)

\* the token the exchange of this invocation returned
OwnToken == getToken(answers[1]).value

\* C14: a schema-valid invocation of WordPressTool._call makes exactly one
\* token exchange, its requests carry the token that exchange returned and no
\* other, and no token is kept once the invocation is over.
C14_OneTokenExchangePerInvocation ==
  /\ (tool = "WordPressTool" /\ SchemaValid) =>
       /\ Len(net) >= 1
       /\ IsTokenExchange(net[1])
       /\ net[1].auth = ""
       /\ \A i \in 2..Len(net) :
            /\ ~ IsTokenExchange(net[i])
            /\ net[i].auth = Bearer(OwnToken)
  /\ pc = "idle" => token = Undefined

\* getFeaturedImage has sent three requests, the first of them the exchange
C14_Witness ==
  /\ tool = "WordPressTool"
  /\ pc = "done"
  /\ Len(net) = 3
  /\ IsTokenExchange(net[1])
  /\ answers[1] = HttpResponse(200, JsonObject([token |-> Str("tok")]))
  /\ net[2].auth = "Bearer tok"
  /\ net[3].auth = "Bearer tok"

\* C15: the requests of one WordPressTool._call are sequential: a request
\* after the token exchange is sent only when the exchange was answered 2xx,
\* it carries the token of that answer as bearer, and at most one request of
\* the invocation is unanswered at any time.
C15_RequestsAreSequential ==
  tool = "WordPressTool" =>
    /\ Len(answers) <= Len(net)
    /\ Len(net) <= Len(answers) + 1
    /\ pc = "done" => Len(net) = Len(answers)
    /\ Len(net) >= 2 =>
         /\ ~ Failed(answers[1])
         /\ answers[1].body.shape = "object"
         /\ \A i \in 2..Len(net) :
              net[i].auth = "Bearer " \o Interp(answers[1].body.f["token"])

\* the media request of getFeaturedImage is unanswered; the exchange and the
\* post request were answered before it was sent
C15_Witness ==
  /\ tool = "WordPressTool"
  /\ pc = "getFeaturedImageMedia"
  /\ Len(net) = 3
  /\ Len(answers) = 2
  /\ answers[1] = HttpResponse(200, JsonObject([token |-> Str("tok")]))
  /\ net[3].auth = "Bearer tok"

IsSubmit(req) == req.method = "POST" /\ StartsWith(req.url, FluxBaseUrl \o "/v1/flux-")
IsPoll(req) == req.method = "GET" /\ StartsWith(req.url, FluxBaseUrl \o "/v1/get_result")
IsSave(req) == req.method = "GET" /\ ~ StartsWith(req.url, FluxBaseUrl)

StatusOf(ans) == ans.body.f["status"]
\* a poll answered with the status 'Ready' or 'Error'
Terminal(ans) == ~ Failed(ans) /\ StatusOf(ans) \in {Str("Ready"), Str("Error")}
Polling == tool = "FluxAPI" /\ pc \in {"wait", "poll"}

\* polling goes on only while the status is neither 'Ready' nor 'Error', and
\* the poll answered 'Ready' or 'Error' is the last poll of its task
PollingStopsAtReadyOrError ==
  tool = "FluxAPI" =>
    /\ Polling => local.status \notin {Str("Ready"), Str("Error")}
    /\ \A k \in 1..Len(answers) :
         (IsPoll(net[k]) /\ Terminal(answers[k]) /\ k < Len(net)) => ~ IsPoll(net[k + 1])

\* a poll is sent when the timer fires and at no other moment, and the timer
\* is started after the submit and after a poll that was answered
OnePollPerWait ==
  /\ pc' = "poll" => pc = "wait"
  /\ pc = "wait" => pc' = "poll"
  /\ pc' = "wait" => pc \in {"submit", "poll"}

\* C16: FluxAPI._call polls a task once after each two-second wait and stops
\* at the first poll that reports Ready or Error; if the remote eventually
\* reports Ready or Error for a task that is polled, every invocation ends.
C16_PollingEndsWhenTheTaskEnds ==
  /\ []PollingStopsAtReadyOrError
  /\ [][OnePollPerWait]_vars
  /\ (tool = "FluxAPI") ~> (pc = "done")

\* one image: the first poll said Pending, the second Ready, the image was
\* saved and the invocation is over
C16_Witness ==
  /\ tool = "FluxAPI"
  /\ pc = "done"
  /\ Len(net) = 4
  /\ StatusOf(answers[2]) = Str("Pending")
  /\ StatusOf(answers[3]) = Str("Ready")
  /\ local.imagesMarkdown = <<"![generated image](/images/img.png)">>

\* C17: the polls of one task are bounded in number whatever the remote
\* answers: the polling of a task ends even if no answer is Ready or Error.
C17_PollingAlwaysEnds == Polling ~> ~ Polling

Submits == {j \in 1..Len(net) : IsSubmit(net[j])}

\* C18: the images are made one at a time: the submit of the next image is
\* sent only after the task before it was Ready and its image was saved, so
\* that the tasks submitted are never more than one ahead of the images saved.
C18_OneImageAtATime ==
  tool = "FluxAPI" =>
    /\ \A j \in 2..Len(net) :
         IsSubmit(net[j]) => (IsSave(net[j - 1]) /\ ~ Failed(answers[j - 1]))
    /\ \A j \in 1..Len(net) : IsSave(net[j]) => (j > 1 /\ IsPoll(net[j - 1]))
    /\ pc = "save" => local.status = Str("Ready")
    /\ Len(local.imagesMarkdown) = local.i
    /\ Cardinality(Submits) <= local.i + 1

\* the task of the second image is submitted, the first image being saved
C18_Witness ==
  /\ tool = "FluxAPI"
  /\ pc = "submit"
  /\ local.i = 1
  /\ Cardinality(Submits) = 2
  /\ IsSave(net[Len(net) - 1])

\* the k-th request failed: no 2xx answer, or a poll answered with the status
\* 'Error' or with 'Ready' and no image
StepFailed(k) ==
  \/ Failed(answers[k])
  \/ /\ IsPoll(net[k])
     /\ \/ StatusOf(answers[k]) = Str("Error")
        \/ /\ StatusOf(answers[k]) = Str("Ready")
           /\ ~ Truthy(answers[k].body.f["result.sample"])

FluxErrors ==
  {"Something went wrong", "An error occurred during image generation.",
   "An error occurred while retrieving the image.",
   "No image data received from Flux API.", "Failed to save the image locally."}

\* a failed step is the last of the invocation
FailureEndsTheInvocation ==
  tool = "FluxAPI" =>
    \A k \in 1..Len(answers) : StepFailed(k) => (pc = "done" /\ Len(net) = k)

\* C19: when a step of image n fails, the invocation ends there: no request
\* is sent for the images after it and the result is the error.
C19_FailureShortCircuits ==
  /\ FailureEndsTheInvocation
  /\ (tool = "FluxAPI" /\ \E k \in 1..Len(answers) : StepFailed(k)) =>
       /\ result.how = "return"
       /\ \E m \in FluxErrors : StartsWith(result.text, m)

\* a result that is one string
IsString(r) == r.how = "return" /\ r.form \in {"text", "object", "array", "data"}

\* C20: every value a _call returns, of WordPressTool, PortdoxTool and
\* FluxAPI, is a single string.
C20_ResultIsAString ==
  (tool # "none" /\ pc = "done" /\ result.how = "return") => IsString(result)

\* C21: FluxAPI._call of a request without a prompt sends no request and ends
\* by returning an error envelope, never by throwing.
C21_MissingPromptIsAnErrorEnvelope ==
  (tool = "FluxAPI" /\ data["prompt"] = Undefined) =>
    /\ net = <<>>
    /\ result.how # "throw"
    /\ pc = "done" => IsErrorEnvelope(result)

\* a credential the fields or the environment hold, not empty
Available(k) == Truthy(args[k]) \/ Truthy(env[k])
NewEnded(class) == tool = class /\ pc = "done" /\ result.form \in {"instance", "text"}

\* C22 as stated: WordPressTool is not constructed without its base URL,
\* username and password, nor FluxAPI without an API key.
C22_NoInstanceWithoutCredentials ==
  /\ (NewEnded("WordPressTool")
        /\ \E k \in {"WORDPRESS_BASE_URL", "WORDPRESS_USERNAME", "WORDPRESS_PASSWORD"} :
             ~ Available(k))
       => result.how = "throw"
  /\ (NewEnded("FluxAPI") /\ ~ Available("FLUX_API_KEY")) => result.how = "throw"

\* C22: WordPressTool is not constructed without its base URL, username and
\* password, nor FluxAPI without an API key unless its override field is set;
\* an instance that is constructed holds the credentials.
C22_NoInstanceWithoutCredentialsOrOverride ==
  /\ (NewEnded("WordPressTool")
        /\ \E k \in {"WORDPRESS_BASE_URL", "WORDPRESS_USERNAME", "WORDPRESS_PASSWORD"} :
             ~ Available(k))
       => (result.how = "throw" /\ self = NoInstance)
  /\ (NewEnded("WordPressTool") /\ result.how = "return")
       => (Truthy(self["baseUrl"]) /\ Truthy(self["username"]) /\ Truthy(self["password"]))
  /\ (NewEnded("FluxAPI") /\ ~ Available("FLUX_API_KEY") /\ ~ Truthy(args["override"]))
       => (result.how = "throw" /\ self = NoInstance)
  /\ (NewEnded("FluxAPI") /\ result.how = "return" /\ ~ Truthy(args["override"]))
       => Truthy(self["apiKey"])

\* FluxAPI with no key and no override: the constructor threw
C22_Witness ==
  /\ NewEnded("FluxAPI")
  /\ ~ Available("FLUX_API_KEY")
  /\ args["override"] = Undefined
  /\ result = Thrown("Missing FLUX_API_KEY environment variable.")

\* the instance the invocation under way was started on
AsConstructed ==
  CASE tool \in WordPressTools -> WordPressToolNew(WordPressFields, NoEnv).value
    [] tool = "PortdoxTool" -> PortdoxToolNew.value
    [] tool = "FluxAPI" -> FluxAPINew(FluxFieldsOf(local.isAgent), NoEnv).value
    [] OTHER -> NoInstance

\* C23: an invocation of _call assigns to no field of the instance: during it
\* and after it every field has the value the constructor gave it.
C23_CallLeavesTheInstanceUnchanged ==
  (tool # "none" /\ result.form # "instance") => self = AsConstructed

\* the requests of invocation v after its token exchange carry its own token
CarriesOwnToken(v) ==
  \A i \in 2..Len(v.net) :
    /\ Len(v.answers) >= 1
    /\ v.net[i].auth = "Bearer " \o Interp(v.answers[1].body.f["token"])

\* every poll invocation v has sent is in its log of requests
FullyLogged(v) ==
  Cardinality({k \in 1..Len(v.answers) : IsPoll(v.net[k]) /\ v.answers[k] \in StillRunning})
    < MaxPolls

\* invocation v ended as it would have ended alone, given the same answers
EndedAsAlone(v) ==
  (v.pc = "done" /\ FullyLogged(v)) =>
    LET alone == RunAlone(tool, Truthy(self["isAgent"]), v.args, v.answers)
    IN  alone.result = v.result /\ alone.net = v.net

\* C24: two invocations of one instance, interleaved at their awaits in any
\* order, do not interfere: each sends the requests and returns the result
\* it would alone, given the same answers, and the requests of a WordPressTool
\* invocation carry the token of that invocation's own exchange.
C24_ConcurrentInvocationsDoNotInterfere ==
  /\ tool = "WordPressTool" => (CarriesOwnToken(Running) /\ CarriesOwnToken(other))
  /\ tool \in {"WordPressTool", "FluxAPI"} => (EndedAsAlone(Running) /\ EndedAsAlone(other))

\* an invocation got the token tok, sent its two requests and ended, while
\* another one, which got tok2 meanwhile, waits for the answer to its createPost
C24_Witness ==
  /\ tool = "WordPressTool"
  /\ pc = "done"
  /\ Len(net) = 3
  /\ token = Str("tok")
  /\ other.pc = "createPost"
  /\ other.token = Str("tok2")
  /\ other.net[2].auth = "Bearer tok2"

\* the case labels of the switch of WordPressTool._call
HandledActions == WpActions \cup {"listPosts", "deletePost"}
\* the request passes the schema in every field but, possibly, its action
OtherFieldsValid == Issues(WpSchema, [args EXCEPT !["action"] = Str("createPost")]) = <<>>

\* C25: a request whose action has a case in the switch of _call reaches that
\* case: it is not rejected by the schema.  A deletePost with a postId sends
\* the DELETE of that post unless the token exchange fails, and a listPosts
\* sends the GET of the posts.
C25_EveryHandlerIsReachable ==
  (tool = "WordPressTool" /\ args["action"].s \in HandledActions /\ OtherFieldsValid) =>
    /\ SchemaValid
    /\ Len(net) >= 1 /\ IsTokenExchange(net[1])
    /\ (pc = "done" /\ args["action"] = Str("deletePost") /\ Truthy(args["postId"])
          /\ ~ Failed(answers[1]))
         => (Len(net) = 2 /\ net[2].method = "DELETE")
    /\ (pc = "done" /\ args["action"] = Str("listPosts") /\ ~ Failed(answers[1]))
         => (Len(net) = 2 /\ net[2].method = "GET")

\* searchPosts(token, keyword): the keyword is the only argument after the token
KeywordOnly(keyword) ==
  /\ tool = "WordPressTool"
  /\ args = Fields([searchType |-> Str(keyword)])

\* C26: searchPosts(token, keyword) sends a posts query that carries the
\* keyword as its search filter.
C26_KeywordRestrictsTheQuery ==
  (KeywordOnly("Test") /\ pc # "idle") =>
    /\ Len(net) >= 1
    /\ IsPostsQuery(net[1])
    /\ Contains(net[1].url, "search=Test")

\* the token exchange was answered 2xx by an object without a token
ExchangeWithoutToken ==
  /\ Len(answers) >= 1
  /\ ~ Failed(answers[1])
  /\ answers[1].body.shape = "object"
  /\ answers[1].body.f["token"] = Undefined

\* C27: no request of WordPressTool carries an undefined bearer token: when
\* the token exchange succeeds without a token in its body, the invocation
\* ends with an error result and sends nothing more.
C27_NoUndefinedBearerToken ==
  tool \in WordPressTools =>
    /\ \A i \in 1..Len(net) : net[i].auth # "Bearer undefined"
    /\ ExchangeWithoutToken => (Len(net) = 1 /\ pc = "done" /\ IsErrorResult(result))

\* the fields the guards of the cases of _call ask for
RequiredFields(action) ==
  CASE action = "createPost" -> {"title", "content"}
    [] action \in {"editPost", "getPostMeta", "getPostContentById", "getFeaturedImage"} ->
         {"postId"}
    [] action = "searchByMeta" -> {"metaKey", "metaValue"}
    [] action = "updatePostMeta" -> {"postId", "metaKey", "metaValue"}
    [] action = "deletePostMeta" -> {"postId", "metaKey"}
    [] action \in {"updateCategory", "deleteCategory"} -> {"categoryId"}
    [] action \in {"updateTag", "deleteTag"} -> {"tagId"}
    [] action \in {"addCategory", "addTag"} -> {"name"}
    [] OTHER -> {}
\* the fields of which the case asks for at least one
OneOfFields(action) ==
  CASE action = "editPost" -> EditableFields
    [] action \in {"updateCategory", "updateTag"} -> {"name", "description"}
    [] OTHER -> {}
SuppliesWhatItsActionRequires ==
  /\ \A k \in RequiredFields(args["action"].s) : Supplied(k)
  /\ OneOfFields(args["action"].s) # {} => \E k \in OneOfFields(args["action"].s) : Supplied(k)

\* C28: a schema-valid request that supplies the fields its action requires,
\* whatever their values, is dispatched: once the token is there, the request
\* of the operation is sent.
C28_SuppliedFieldsAreNotMissing ==
  (tool = "WordPressTool" /\ SchemaValid /\ SuppliesWhatItsActionRequires
     /\ Len(answers) >= 1 /\ ~ Failed(answers[1])) =>
    Len(net) >= 2

\* the collection the type of the request names: posts, or pages
CollectionOfType ==
  WpJson \o "/wp/v2/" \o (IF args["type"] = Str("page") THEN "pages" ELSE "posts")

\* C29: the operation request of createPost, editPost and searchPosts goes
\* to the collection the request's type names: pages for 'page', posts for
\* 'post' and for no type.
C29_TypeSelectsTheCollection ==
  (tool = "WordPressTool" /\ SchemaValid
     /\ args["action"] \in {Str("createPost"), Str("editPost"), Str("searchPosts")}) =>
    \A i \in 2..Len(net) :
      (~ IsTagLookup(net[i]) /\ ~ IsCategoryLookup(net[i]))
        => StartsWith(net[i].url, CollectionOfType)

\* C30: update_container posts to the update endpoint only when
\* container_number and load_id are both supplied and not empty; without one
\* of them it returns the error that names it and sends nothing; the request
\* it sends carries the configured auth_token.
C30_UpdateNeedsContainerAndLoad ==
  (tool = "PortdoxTool" /\ SchemaValid /\ args["action"] = Str("update_container")) =>
    /\ Len(net) <= 1
    /\ Len(net) = 1 =>
         /\ Truthy(args["container_number"]) /\ Truthy(args["load_id"])
         /\ net[1].method = "POST"
         /\ net[1].url = updateContainerApiUrl
         /\ net[1].body["auth_token"] = Str(laravelAuthToken)
    /\ ~ Truthy(args["container_number"]) =>
         /\ net = <<>>
         /\ result = Text("Error: Container number is required for updating.")
    /\ (Truthy(args["container_number"]) /\ ~ Truthy(args["load_id"])) =>
         /\ net = <<>>
         /\ result = Text("Error: Load ID is required for updating.")
    /\ (Truthy(args["container_number"]) /\ Truthy(args["load_id"])) => Len(net) = 1

\* the update of container C1 of load L1 is sent and not yet answered
C30_Witness ==
  /\ tool = "PortdoxTool"
  /\ pc = "updateContainer"
  /\ args["container_number"] = Str("C1")
  /\ args["load_id"] = Str("L1")
  /\ Len(net) = 1
  /\ net[1].body["auth_token"] = Str(laravelAuthToken)

====
